---------------------------- MODULE Spec2Model ----------------------------
(***************************************************************************)
(* A model of the radar volume converter (src/src/lib.rs and               *)
(* src/src/formats/{dorade,nexrad}.rs).                                     *)
(*                                                                         *)
(* The converter is a linear pipeline of pure passes over one volume.      *)
(* Each pass is modelled as its own small state machine over the shared    *)
(* variables below; a specification (SpecHRD, ...) starts one pass on an   *)
(* input drawn from a bounded set and runs it to completion.  The          *)
(* variables of the passes that a specification does not run stay at       *)
(* their idle values.                                                      *)
(***************************************************************************)
EXTENDS Integers, Sequences, FiniteSets, TLC

VARIABLES
    \* ---- dorade.rs decompress_HRD ----
    raw,          \* &Vec<u16>: the compressed words (input)
    bad_data,     \* u16: the fill word (input)
    ngates,       \* u16: the expected gate count (input)
    raw_i,        \* usize: cursor into raw (0-based, as in the source)
    decomp_i,     \* usize: cursor into decomp (0-based)
    wcount,       \* u16: the running tally
    decomp,       \* Vec<u16>: the output vector
    hrd_pc,       \* where decompress_HRD is: "loop", "returned", or a panic
    \* ---- nexrad.rs read_nexrad / read_ray ----
    rn_buf,       \* buf: the message body, one entry per message
    rn_reader,    \* reader: number of messages already consumed from buf
    rn_sweeps,    \* sweeps: the closed sweeps, each a sequence of rays
    rn_sweep,     \* sweep.rays: the rays of the sweep being collected
    rn_pc,        \* "loop" while reader.len() > 0 is evaluated, "returned"
    \* ---- nexrad.rs write_nexrad / write_sweep ----
    wn_radar,     \* radar.sweeps as written: nrays() of each sweep
    wn_sweep_index, \* sweep_index of write_nexrad's loop (0-based)
    wn_index,     \* index of write_sweep's loop (0-based)
    wn_writer,    \* the messages written so far, one entry per ray
    wn_pc,        \* "loop", "returned"
    \* ---- lib.rs write ----
    w_radar,      \* radar.sweeps: a sequence of [id, time, elevation]
    w_options,    \* options.write_volumes, options.write_separate
    w_vol,        \* vol.sweeps of the write_volumes branch
    w_vol_mode,   \* vol_mode(&radar): 1 or -1
    w_last,       \* last: the elevation of the previous sweep
    w_next,       \* number of sweeps the for loop has taken from radar.sweeps
    w_files,      \* the files written, each the sequence of its sweeps
    w_pc,         \* "start", "volumes", "separate", "returned", or a panic
    \* ---- lib.rs RadarFile / Sweep normalizer operations ----
    nz_input,     \* the volume before the operation: a sequence of sweeps
    nz_radar,     \* radar.sweeps after the operation
    nz_op,        \* the operation applied, "none" before it
    nz_count,     \* how many times in a row it has been applied
    nz_pc,        \* "ready", "done", or "panic"
    \* ---- lib.rs RadyOptions::apply_options ----
    ao_radar,     \* radar.sweeps
    ao_options,   \* the flags trim_rays, split_overlap_rays, sort_rays_by_azimuth, location
    ao_pc,        \* the if statement apply_options is at, "returned", or "panic"
    \* ---- nexrad.rs write_nexrad, then read_nexrad of the file written ----
    rt_record,    \* bytes 4..6 of the compression record of the file
    rt_sweeps,    \* sweeps of the RadarFile read back: the ray counts
    rt_pc,        \* "file" while the file is written, "returned", or "panic"
    \* ---- nexrad.rs pack_data and pack_msg_31_header for one ray ----
    pd_fields,    \* the keys of sweep.rays[index].data
    pd_ngates,    \* the length of each of the ray's data vectors
    pd_at,        \* how many of the names of the two for loops have been taken
    pd_next_ptr,  \* next_ptr
    pd_ptrs,      \* ptrs
    pd_data,      \* data: the bytes of the blocks
    pd_msg,       \* the bytes pack_msg_31_header returns
    pd_pc,        \* "blocks", "fields", "resize", "header", "done"
    \* ---- nexrad.rs pack_data_array and the decoding of read_data_block, one gate ----
    q_field,      \* the field name
    q_value,      \* data[i] of the ray, a fraction [num, den]
    q_word,       \* the quantized word written or found in a file
    q_decoded,    \* the value read_data_block yields: [sentinel, num, den]
    q_pc,         \* "value", "packed", "roundtrip", or "word", "decoded"
    \* ---- dorade.rs read_dorade: PARM blocks, one sweep of rays, then lib.rs write ----
    dr_file,      \* the file: PARM names, rays of data blocks, compress flag, cell count
    dr_parm_desc, \* keys of desc.parm_desc
    dr_params,    \* keys of radar.params
    dr_i,         \* position in the PARM list, then in the ray list
    dr_j,         \* position in the data blocks of the current ray
    dr_ray,       \* new_ray.data as a set of <<name, number of gates>>
    dr_sweep,     \* sweep.rays of load_sweep, one data map per ray
    dr_sweeps,    \* radar.sweeps
    dr_blocks,    \* per written ray, the field blocks <<field, DataBlock.ngates, array length>>
    dr_pc,        \* "parm", "sweep", "ray", "returned", "written", "panic"
    \* ---- lib.rs convert: the loop over the input files ----
    cv_files,     \* the files the glob gave, each a directory or a file of some kind
    cv_trim,      \* options.trim_rays
    cv_i,         \* position of the loop in files
    cv_read,      \* indices of the files read
    cv_written,   \* indices of the files written
    cv_pc,        \* "loop", "apply", "write", "done", "panic"
    \* ---- lib.rs read: the sniffers and the dispatch to a reader ----
    rd_head,      \* the first bytes of the file, at most four
    rd_reader,    \* the reader read() handed the file to, or "none"
    rd_pc,        \* "read", "reading", "panic_unknown_format", "panic_io"
    \* ---- nexrad.rs read_nexrad from the compression record on ----
    rf_file,      \* the messages the file holds behind the compression record
    rf_record,    \* bytes 4..6 of the compression record
    rf_pc,        \* "file", "body", "panic"
    \* ---- nexrad.rs read_ray: the bytes one message takes from the body ----
    fr_len,       \* reader.len() when read_ray is called
    fr_type,      \* header.f_type
    fr_size,      \* header.size
    fr_ptrs,      \* the pointers of the message, block_count of them, each by class
    fr_reader,    \* bytes consumed from the start of the MsgHeader
    fr_pc         \* "header", "other", "msg31", "blocks", "advance", "none", "some", "panic"

hrdVars == <<raw, bad_data, ngates, raw_i, decomp_i, wcount, decomp, hrd_pc>>
rnVars == <<rn_buf, rn_reader, rn_sweeps, rn_sweep, rn_pc>>
wnVars == <<wn_radar, wn_sweep_index, wn_index, wn_writer, wn_pc>>
wVars == <<w_radar, w_options, w_vol, w_vol_mode, w_last, w_next, w_files, w_pc>>
nzVars == <<nz_input, nz_radar, nz_op, nz_count, nz_pc>>
aoVars == <<ao_radar, ao_options, ao_pc>>
rtVars == <<rt_record, rt_sweeps, rt_pc>>
pdVars == <<pd_fields, pd_ngates, pd_at, pd_next_ptr, pd_ptrs, pd_data, pd_msg, pd_pc>>
qVars == <<q_field, q_value, q_word, q_decoded, q_pc>>
drVars == <<dr_file, dr_parm_desc, dr_params, dr_i, dr_j, dr_ray, dr_sweep, dr_sweeps, dr_blocks, dr_pc>>
cvVars == <<cv_files, cv_trim, cv_i, cv_read, cv_written, cv_pc>>
rdVars == <<rd_head, rd_reader, rd_pc>>
rfVars == <<rf_file, rf_record, rf_pc>>
frVars == <<fr_len, fr_type, fr_size, fr_ptrs, fr_reader, fr_pc>>

vars == <<hrdVars, rnVars, wnVars, wVars, nzVars, aoVars, rtVars, pdVars, qVars, drVars, cvVars, rdVars, rfVars, frVars>>

\* what each pass leaves alone
notHrd == <<rnVars, wnVars, wVars, nzVars, aoVars, rtVars, pdVars, qVars, drVars, cvVars, rdVars, rfVars, frVars>>
notRn == <<hrdVars, wnVars, wVars, nzVars, aoVars, rtVars, pdVars, qVars, drVars, cvVars, rdVars, rfVars, frVars>>
notWn == <<hrdVars, rnVars, wVars, nzVars, aoVars, rtVars, pdVars, qVars, drVars, cvVars, rdVars, rfVars, frVars>>
notW == <<hrdVars, rnVars, wnVars, nzVars, aoVars, rtVars, pdVars, qVars, drVars, cvVars, rdVars, rfVars, frVars>>
notNz == <<hrdVars, rnVars, wnVars, wVars, aoVars, rtVars, pdVars, qVars, drVars, cvVars, rdVars, rfVars, frVars>>
notAo == <<hrdVars, rnVars, wnVars, wVars, nzVars, rtVars, pdVars, qVars, drVars, cvVars, rdVars, rfVars, frVars>>
notRt == <<hrdVars, rnVars, wnVars, wVars, nzVars, aoVars, pdVars, qVars, drVars, cvVars, rdVars, rfVars, frVars>>
notPd == <<hrdVars, rnVars, wnVars, wVars, nzVars, aoVars, rtVars, qVars, drVars, cvVars, rdVars, rfVars, frVars>>
notQ == <<hrdVars, rnVars, wnVars, wVars, nzVars, aoVars, rtVars, pdVars, drVars, cvVars, rdVars, rfVars, frVars>>
notDr == <<hrdVars, rnVars, wnVars, wVars, nzVars, aoVars, rtVars, pdVars, qVars, cvVars, rdVars, rfVars, frVars>>
notCv == <<hrdVars, rnVars, wnVars, wVars, nzVars, aoVars, rtVars, pdVars, qVars, drVars, rdVars, rfVars, frVars>>
notRd == <<hrdVars, rnVars, wnVars, wVars, nzVars, aoVars, rtVars, pdVars, qVars, drVars, cvVars, rfVars, frVars>>
notRf == <<hrdVars, rnVars, wnVars, wVars, nzVars, aoVars, rtVars, pdVars, qVars, drVars, cvVars, rdVars, frVars>>
notFr == <<hrdVars, rnVars, wnVars, wVars, nzVars, aoVars, rtVars, pdVars, qVars, drVars, cvVars, rdVars, rfVars>>

----------------------------------------------------------------------------
(* Bounds of the model *)

\* longest compressed stream, in words
MaxRawLen == 5
\* largest expected gate count
MaxGates == 4
\* longest message body read by read_nexrad, in messages
MaxMsgs == 5
\* most sweeps in a written volume, and most rays in one of its sweeps
MaxWrSweeps == 3
MaxWrRays == 3
\* most sweeps in a volume handed to write
MaxVolSweeps == 5
\* most rays in a sweep of evenly spaced azimuths handed to the normalizer
MaxRays == 48
\* most rays in a sweep of freely chosen azimuths handed to the normalizer
ShortLen == 5
\* most sweeps in a volume handed to the normalizer
MaxNzSweeps == 2
\* how many times in a row a normalizer operation is applied
MaxApplications == 2
\* most rays of a sweep handed to apply_options
MaxAoRays == 24
\* most gates of a ray handed to pack_data
MaxPackGates == 2
\* width of each window of gate values and of file words
MaxValues == 40

----------------------------------------------------------------------------
(* Helpers *)

SeqsUpTo(S, n) == UNION {[1..k -> S] : k \in 0..n}

Min(a, b) == IF a < b THEN a ELSE b

Abs(x) == IF x < 0 THEN -x ELSE x

Range(s) == {s[i] : i \in 1..Len(s)}

\* the elements of s, each with its sort key
Keyed(keys, s) == [i \in 1..Len(s) |-> [key |-> keys[i], val |-> s[i]]]

\* s with x put after the last element whose key is not greater: one step
\* of a stable sort of keyed elements
RECURSIVE InsertKeyed(_, _)
InsertKeyed(s, x) ==
    IF s = <<>> THEN <<x>>
    ELSE IF s[Len(s)].key <= x.key THEN Append(s, x)
    ELSE Append(InsertKeyed(SubSeq(s, 1, Len(s) - 1), x), s[Len(s)])

RECURSIVE SortKeyed(_)
SortKeyed(s) ==
    IF s = <<>> THEN <<>>
    ELSE InsertKeyed(SortKeyed(SubSeq(s, 1, Len(s) - 1)), s[Len(s)])

\* s in ascending order of keys, equal keys in their order in s (the
\* contract of slice::sort_by and sort_by_key)
StableSort(keys, s) ==
    LET sorted == SortKeyed(Keyed(keys, s))
    IN  [i \in 1..Len(s) |-> sorted[i].val]

RECURSIVE SumSeq(_)
SumSeq(s) == IF s = <<>> THEN 0 ELSE Head(s) + SumSeq(Tail(s))

RECURSIVE Flatten(_)
Flatten(ss) == IF ss = <<>> THEN <<>> ELSE Head(ss) \o Flatten(Tail(ss))

----------------------------------------------------------------------------
(* Idle values of the passes a specification does not run                  *)

RN_Idle ==
    /\ rn_buf = <<>>
    /\ rn_reader = 0
    /\ rn_sweeps = <<>>
    /\ rn_sweep = <<>>
    /\ rn_pc = "idle"

WN_Idle ==
    /\ wn_radar = <<>>
    /\ wn_sweep_index = 0
    /\ wn_index = 0
    /\ wn_writer = <<>>
    /\ wn_pc = "idle"

W_Idle ==
    /\ w_radar = <<>>
    /\ w_options = [write_volumes |-> FALSE, write_separate |-> FALSE]
    /\ w_vol = <<>>
    /\ w_vol_mode = 1
    /\ w_last = 0
    /\ w_next = 0
    /\ w_files = <<>>
    /\ w_pc = "idle"

NZ_Idle ==
    /\ nz_input = <<>>
    /\ nz_radar = <<>>
    /\ nz_op = "none"
    /\ nz_count = 0
    /\ nz_pc = "idle"

FR_Idle ==
    /\ fr_len = 0
    /\ fr_type = 0
    /\ fr_size = 0
    /\ fr_ptrs = <<>>
    /\ fr_reader = 0
    /\ fr_pc = "idle"

RF_Idle ==
    /\ rf_file = <<>>
    /\ rf_record = <<>>
    /\ rf_pc = "idle"

RD_Idle ==
    /\ rd_head = <<>>
    /\ rd_reader = "none"
    /\ rd_pc = "idle"

CV_Idle ==
    /\ cv_files = <<>>
    /\ cv_trim = FALSE
    /\ cv_i = 0
    /\ cv_read = {}
    /\ cv_written = {}
    /\ cv_pc = "idle"

DR_Idle ==
    /\ dr_file = [parms |-> <<>>, rays |-> <<>>, compress |-> FALSE, ngates |-> 0, more |-> 0]
    /\ dr_parm_desc = {}
    /\ dr_params = {}
    /\ dr_i = 0
    /\ dr_j = 0
    /\ dr_ray = {}
    /\ dr_sweep = <<>>
    /\ dr_sweeps = <<>>
    /\ dr_blocks = <<>>
    /\ dr_pc = "idle"

Q_Idle ==
    /\ q_field = "none"
    /\ q_value = [num |-> 0, den |-> 1]
    /\ q_word = 0
    /\ q_decoded = [sentinel |-> FALSE, num |-> 0, den |-> 1]
    /\ q_pc = "idle"

PD_Idle ==
    /\ pd_fields = {}
    /\ pd_ngates = 0
    /\ pd_at = 0
    /\ pd_next_ptr = 0
    /\ pd_ptrs = <<>>
    /\ pd_data = <<>>
    /\ pd_msg = <<>>
    /\ pd_pc = "idle"

RT_Idle ==
    /\ rt_record = <<>>
    /\ rt_sweeps = <<>>
    /\ rt_pc = "idle"

AO_Idle ==
    /\ ao_radar = <<>>
    /\ ao_options = [trim_rays |-> FALSE, split_overlap_rays |-> FALSE, sort_rays_by_azimuth |-> FALSE, location |-> FALSE]
    /\ ao_pc = "idle"

----------------------------------------------------------------------------
(* dorade.rs: decompress_HRD                                               *)

\* 0x8000: bit 15 of a control word, the literal flag
FlagBit == 32768
\* u16 arithmetic is modulo 2^16
U16 == 65536

\* the words a stream is drawn from: the terminator 1, the runs 2 and 3
\* (0x0002, 0x0003), the literal header 0x8002, and a plain data word 7
Words == {1, 2, 3, 32770, 7}
BadWords == {65535}

\* raw[raw_i] & 0x7fff
CountOf(w) == w % FlagBit

\* (raw[raw_i] & 0x8000) > 0
IsLiteral(w) == w >= FlagBit

\* raw[raw_i] != 1 is the loop condition
IsTerminator(w) == w = 1

\* wcount + nn > ngates, in u16 (a release build wraps; a debug build
\* panics on the overflow, which needs ngates > 32768)
OverrunMut(wc, nn, ng) == FALSE
Overrun(wc, nn, ng) == ((wc + nn) % U16) > ng

\* Vec::with_capacity(ngates) followed by resize(ngates, 0)
InitDecompMut(ng) == <<>>
InitDecomp(ng) == [i \in 1..ng |-> 0]

\* number of fill words a run with count nn writes: while nn > 1
RunFill(nn) == IF nn > 1 THEN nn - 1 ELSE 0

\* raw[raw_i] with raw_i past the end panics (slice index out of bounds)
PastEndMut(r, i) == FALSE
PastEnd(r, i) == i >= Len(r)

\* the word under the cursor (0-based index i); reading past the end in the
\* mutated decoder yields the terminator, as a zero-length stream would
WordAt(r, i) == IF i < Len(r) THEN r[i + 1] ELSE 1

\* decomp with k words written from 0-based position at: vals[1..k]
WriteAt(d, at, vals, k) ==
    [j \in 1..Len(d) |-> IF j > at /\ j <= at + k THEN vals[j - at] ELSE d[j]]

HRD_Idle ==
    /\ raw = <<>>
    /\ bad_data = 0
    /\ ngates = 0
    /\ raw_i = 0
    /\ decomp_i = 0
    /\ wcount = 0
    /\ decomp = <<>>
    /\ hrd_pc = "idle"

HRD_Init ==
    /\ raw \in SeqsUpTo(Words, MaxRawLen)
    /\ bad_data \in BadWords
    /\ ngates \in 0..MaxGates
    /\ raw_i = 0
    /\ decomp_i = 0
    /\ wcount = 0
    /\ decomp = InitDecomp(ngates)
    /\ hrd_pc = "loop"

\* the loop condition reads raw[raw_i] past the end of the stream
HRD_PastEnd ==
    /\ hrd_pc = "loop"
    /\ PastEnd(raw, raw_i)
    /\ hrd_pc' = "panic_raw_index"
    /\ UNCHANGED <<raw, bad_data, ngates, raw_i, decomp_i, wcount, decomp>>
    /\ UNCHANGED notHrd

\* raw[raw_i] == 1: the loop ends and decomp is returned
HRD_Return ==
    /\ hrd_pc = "loop"
    /\ ~PastEnd(raw, raw_i)
    /\ IsTerminator(WordAt(raw, raw_i))
    /\ hrd_pc' = "returned"
    /\ UNCHANGED <<raw, bad_data, ngates, raw_i, decomp_i, wcount, decomp>>
    /\ UNCHANGED notHrd

\* wcount + nn > ngates: panic!("Could not decode ...")
HRD_CouldNotDecode ==
    /\ hrd_pc = "loop"
    /\ ~PastEnd(raw, raw_i)
    /\ ~IsTerminator(WordAt(raw, raw_i))
    /\ Overrun(wcount, CountOf(WordAt(raw, raw_i)), ngates)
    /\ hrd_pc' = "panic_could_not_decode"
    /\ UNCHANGED <<raw, bad_data, ngates, raw_i, decomp_i, wcount, decomp>>
    /\ UNCHANGED notHrd

\* a literal control word: copy the next nn words.  The copy stops at the
\* first word missing from raw (panic on raw[raw_i]) or at the first
\* position outside decomp (panic on decomp[decomp_i]); the right-hand side
\* raw[raw_i] is evaluated first.
HRD_Literal ==
    /\ hrd_pc = "loop"
    /\ ~PastEnd(raw, raw_i)
    /\ LET w == WordAt(raw, raw_i)
           nn == CountOf(w)
           avail == Len(raw) - (raw_i + 1)
           room == Len(decomp) - decomp_i
           k == Min(nn, Min(avail, room))
           src == [j \in 1..k |-> raw[raw_i + 1 + j]]
       IN  /\ ~IsTerminator(w)
           /\ ~Overrun(wcount, nn, ngates)
           /\ IsLiteral(w)
           /\ wcount' = (wcount + nn) % U16
           /\ raw_i' = raw_i + 1 + k
           /\ decomp_i' = decomp_i + k
           /\ decomp' = WriteAt(decomp, decomp_i, src, k)
           /\ hrd_pc' = IF k = nn THEN "loop"
                        ELSE IF avail <= room THEN "panic_raw_index"
                        ELSE "panic_decomp_index"
    /\ UNCHANGED <<raw, bad_data, ngates>>
    /\ UNCHANGED notHrd

\* a run control word: write bad_data while nn > 1
HRD_Run ==
    /\ hrd_pc = "loop"
    /\ ~PastEnd(raw, raw_i)
    /\ LET w == WordAt(raw, raw_i)
           nn == CountOf(w)
           fill == RunFill(nn)
           room == Len(decomp) - decomp_i
           k == Min(fill, room)
       IN  /\ ~IsTerminator(w)
           /\ ~Overrun(wcount, nn, ngates)
           /\ ~IsLiteral(w)
           /\ wcount' = (wcount + nn) % U16
           /\ raw_i' = raw_i + 1
           /\ decomp_i' = decomp_i + k
           /\ decomp' = WriteAt(decomp, decomp_i, [j \in 1..k |-> bad_data], k)
           /\ hrd_pc' = IF k = fill THEN "loop" ELSE "panic_decomp_index"
    /\ UNCHANGED <<raw, bad_data, ngates>>
    /\ UNCHANGED notHrd

HRD_Next ==
    \/ HRD_PastEnd
    \/ HRD_Return
    \/ HRD_CouldNotDecode
    \/ HRD_Literal
    \/ HRD_Run

\* the initial states of SpecHRD: the pass is started, the others are idle
InitHRD == HRD_Init /\ RN_Idle /\ WN_Idle /\ W_Idle /\ NZ_Idle /\ AO_Idle /\ RT_Idle /\ PD_Idle /\ Q_Idle /\ DR_Idle /\ CV_Idle /\ RD_Idle /\ RF_Idle /\ FR_Idle

SpecHRD == InitHRD /\ [][HRD_Next]_vars

----------------------------------------------------------------------------
(* The run-length scheme as section 4.2 of the specification words it,     *)
(* used only to state the claims about decompress_HRD: a literal control   *)
(* word emits its n following words, a run control word emits n-1 fill     *)
(* words, the total emitted is checked against N at each control word      *)
(* before anything is copied, and the word 1 ends the stream.              *)

RECURSIVE RefWalk(_, _, _, _, _)
RefWalk(r, i, out, n, bad) ==
    IF i >= Len(r) THEN [res |-> "truncated", out |-> out]
    ELSE LET w == r[i + 1]
             c == w % 32768
             e == IF w >= 32768 THEN c ELSE (IF c > 1 THEN c - 1 ELSE 0)
         IN  IF w = 1 THEN [res |-> "ok", out |-> out]
             ELSE IF Len(out) + e > n THEN [res |-> "corrupt", out |-> out]
             ELSE IF w >= 32768
                  THEN IF i + 1 + c > Len(r)
                       THEN [res |-> "truncated", out |-> out]
                       ELSE RefWalk(r, i + 1 + c,
                                    out \o [j \in 1..c |-> r[i + 1 + j]], n, bad)
                  ELSE RefWalk(r, i + 1, out \o [j \in 1..e |-> bad], n, bad)

RefDecode == RefWalk(raw, 0, <<>>, ngates, bad_data)

HRD_Done == hrd_pc # "loop"

\* C1: whenever decompress_HRD returns, the vector it returns has exactly
\* ngates words.
C1_ReturnedLengthIsNgates ==
    hrd_pc = "returned" => Len(decomp) = ngates

\* C1 witness: a stream is accepted having filled only part of the vector
C1_Witness ==
    /\ hrd_pc = "returned"
    /\ ngates >= 2
    /\ decomp_i >= 1
    /\ decomp_i < ngates

\* C2: every terminated stream whose emitted gates (n words for a literal,
\* n-1 fill words for a run) total exactly ngates is accepted and decodes
\* to the concatenation of those outputs.
C2_DecodesToConcatenation ==
    (HRD_Done /\ RefDecode.res = "ok" /\ Len(RefDecode.out) = ngates)
        => (hrd_pc = "returned" /\ decomp = RefDecode.out)

\* C2, the worked example of the specification: the words
\* [0x0003, 0x8002, A, B, 0x0001] with bad = 0xFFFF and 4 gates decode to
\* [0xFFFF, 0xFFFF, A, B] (here A = 7, B = 3).
C2_ExampleS2 ==
    (HRD_Done /\ raw = <<3, 32770, 7, 3, 1>> /\ ngates = 4 /\ bad_data = 65535)
        => (hrd_pc = "returned" /\ decomp = <<65535, 65535, 7, 3>>)

\* C3: the number of gates written never exceeds ngates, no write lands
\* outside the vector, and a stream whose emitted gates would exceed ngates
\* ends in the "Could not decode" failure.
C3_NeverExceedsNgates ==
    /\ decomp_i <= ngates
    /\ hrd_pc # "panic_decomp_index"
    /\ \A j \in 1..Len(decomp) : j > decomp_i => decomp[j] = 0
    /\ (HRD_Done /\ RefDecode.res = "corrupt")
           => hrd_pc = "panic_could_not_decode"

\* C3 witness: gates were written, then a control word would overrun
C3_Witness ==
    /\ hrd_pc = "panic_could_not_decode"
    /\ RefDecode.res = "corrupt"
    /\ decomp_i >= 1

----------------------------------------------------------------------------
(* nexrad.rs: read_nexrad and read_ray                                     *)
(*                                                                         *)
(* The body is modelled one message at a time: an entry of rn_buf is the   *)
(* MsgHeader's f_type and, for a type 31 message, the Msg31Header's        *)
(* radial_status.  A ray is identified by the position of its message in   *)
(* the body.  The per-ray attribute sums (RayAttribs) do not steer the     *)
(* loop and are left out.                                                  *)

\* the message type read_ray decodes
Msg31 == 31

\* the messages a body is drawn from: type 31 with each radial_status, and
\* one message of another type (2)
Messages ==
    {[f_type |-> Msg31, radial_status |-> st] : st \in 0..4}
        \cup {[f_type |-> 2, radial_status |-> 0]}

\* msg_31_header.radial_status == 2 || msg_31_header.radial_status == 4
IsSweepEndMut(st) == st = 2
IsSweepEnd(st) == st = 2 \/ st = 4

\* header.f_type != 31
IsMsg31(m) == m.f_type = Msg31

RN_Init ==
    /\ rn_buf \in SeqsUpTo(Messages, MaxMsgs)
    /\ rn_reader = 0
    /\ rn_sweeps = <<>>
    /\ rn_sweep = <<>>
    /\ rn_pc = "loop"

\* read_ray on a message of another type: it is skipped, None is returned
RN_SkipMessage ==
    /\ rn_pc = "loop"
    /\ rn_reader < Len(rn_buf)
    /\ ~IsMsg31(rn_buf[rn_reader + 1])
    /\ rn_reader' = rn_reader + 1
    /\ UNCHANGED <<rn_buf, rn_sweeps, rn_sweep, rn_pc>>
    /\ UNCHANGED notRn

\* read_ray on a type 31 message: Some((ray, end)); the ray is pushed, and
\* when end is set the sweep is pushed and a new one begun
RN_ReadRay ==
    /\ rn_pc = "loop"
    /\ rn_reader < Len(rn_buf)
    /\ IsMsg31(rn_buf[rn_reader + 1])
    /\ LET ray == rn_reader + 1
           end == IsSweepEnd(rn_buf[rn_reader + 1].radial_status)
           rays == Append(rn_sweep, ray)
       IN  /\ rn_reader' = rn_reader + 1
           /\ rn_sweeps' = IF end THEN Append(rn_sweeps, rays) ELSE rn_sweeps
           /\ rn_sweep' = IF end THEN <<>> ELSE rays
    /\ UNCHANGED <<rn_buf, rn_pc>>
    /\ UNCHANGED notRn

\* reader.len() == 0: the RadarFile is built from sweeps
RN_Return ==
    /\ rn_pc = "loop"
    /\ rn_reader >= Len(rn_buf)
    /\ rn_pc' = "returned"
    /\ UNCHANGED <<rn_buf, rn_reader, rn_sweeps, rn_sweep>>
    /\ UNCHANGED notRn

RN_Next ==
    \/ RN_SkipMessage
    \/ RN_ReadRay
    \/ RN_Return

\* the initial states of SpecRN: the pass is started, the others are idle
InitRN == RN_Init /\ HRD_Idle /\ WN_Idle /\ W_Idle /\ NZ_Idle /\ AO_Idle /\ RT_Idle /\ PD_Idle /\ Q_Idle /\ DR_Idle /\ CV_Idle /\ RD_Idle /\ RF_Idle /\ FR_Idle

SpecRN == InitRN /\ [][RN_Next]_vars

\* the positions of the type 31 messages among the first n of the body
RECURSIVE Msg31Upto(_)
Msg31Upto(n) ==
    IF n = 0 THEN <<>>
    ELSE IF rn_buf[n].f_type = 31 THEN Append(Msg31Upto(n - 1), n)
    ELSE Msg31Upto(n - 1)

RN_Closes(ray) == rn_buf[ray].radial_status \in {2, 4}

\* C5: at every point of the read, the closed sweeps followed by the open
\* one are the type 31 rays read so far, in order; every closed sweep ends
\* at a ray with radial_status 2 or 4 and holds no other such ray; the open
\* sweep holds none.  Statuses 0,1,2,3,4 give two sweeps of 3 and 2 rays.
C5_SweepClosesAtStatus2Or4 ==
    /\ Flatten(rn_sweeps) \o rn_sweep = Msg31Upto(rn_reader)
    /\ \A k \in 1..Len(rn_sweeps) :
          /\ rn_sweeps[k] # <<>>
          /\ \A j \in 1..Len(rn_sweeps[k]) :
                RN_Closes(rn_sweeps[k][j]) <=> (j = Len(rn_sweeps[k]))
    /\ \A j \in 1..Len(rn_sweep) : ~RN_Closes(rn_sweep[j])
    /\ (/\ rn_pc = "returned"
        /\ Len(rn_buf) = 5
        /\ \A i \in 1..5 : rn_buf[i] = [f_type |-> 31, radial_status |-> i - 1])
          => rn_sweeps = <<(<<1, 2, 3>>), (<<4, 5>>)>>

\* C5 witness: the body with statuses 0,1,2,3,4 has been read to the end
C5_Witness ==
    /\ rn_pc = "returned"
    /\ Len(rn_buf) = 5
    /\ \A i \in 1..5 : rn_buf[i] = [f_type |-> 31, radial_status |-> i - 1]
    /\ Len(rn_sweeps) = 2

----------------------------------------------------------------------------
(* nexrad.rs: write_nexrad, write_sweep, pack_msg_31_header                *)
(*                                                                         *)
(* A volume is given by the number of rays of each of its sweeps; one      *)
(* message is written per ray.                                             *)

\* the radial_status of pack_msg_31_header, for 0-based index and
\* sweep_index, nrays = sweep.nrays() and nsweeps = radar.nsweeps()
RadialStatusMut(index, sweep_index, nrays, nsweeps) ==
    IF index = 0 /\ sweep_index = 0 THEN 3
    ELSE IF index = 0 THEN 0
    ELSE IF index = nrays - 1 /\ sweep_index = nsweeps - 1 THEN 4
    ELSE IF index = nrays - 1 THEN 2
    ELSE 1
RadialStatus(index, sweep_index, nrays, nsweeps) ==
    IF index = 0 /\ sweep_index = 0 THEN 3
    ELSE IF index = nrays - 1 /\ sweep_index = nsweeps - 1 THEN 4
    ELSE IF index = 0 THEN 0
    ELSE IF index = nrays - 1 THEN 2
    ELSE 1

WN_Init ==
    /\ wn_radar \in UNION {[1..k -> 1..MaxWrRays] : k \in 1..MaxWrSweeps}
    /\ wn_sweep_index = 0
    /\ wn_index = 0
    /\ wn_writer = <<>>
    /\ wn_pc = "loop"

\* one turn of write_sweep's loop: the ray's message is written
WN_WriteRay ==
    /\ wn_pc = "loop"
    /\ wn_sweep_index < Len(wn_radar)
    /\ LET nrays == wn_radar[wn_sweep_index + 1]
           msg == [f_type |-> Msg31,
                   radial_status |-> RadialStatus(wn_index, wn_sweep_index,
                                                  nrays, Len(wn_radar)),
                   elevation_number |-> wn_sweep_index + 1,
                   azimuth_number |-> wn_index + 1]
       IN  /\ wn_writer' = Append(wn_writer, msg)
           /\ IF wn_index + 1 < nrays
              THEN /\ wn_index' = wn_index + 1
                   /\ wn_sweep_index' = wn_sweep_index
              ELSE /\ wn_index' = 0
                   /\ wn_sweep_index' = wn_sweep_index + 1
    /\ UNCHANGED <<wn_radar, wn_pc>>
    /\ UNCHANGED notWn

\* write_nexrad's loop over the sweeps is over
WN_Return ==
    /\ wn_pc = "loop"
    /\ wn_sweep_index >= Len(wn_radar)
    /\ wn_pc' = "returned"
    /\ UNCHANGED <<wn_radar, wn_sweep_index, wn_index, wn_writer>>
    /\ UNCHANGED notWn

WN_Next ==
    \/ WN_WriteRay
    \/ WN_Return

\* the initial states of SpecWN: the pass is started, the others are idle
InitWN == WN_Init /\ HRD_Idle /\ RN_Idle /\ W_Idle /\ NZ_Idle /\ AO_Idle /\ RT_Idle /\ PD_Idle /\ Q_Idle /\ DR_Idle /\ CV_Idle /\ RD_Idle /\ RF_Idle /\ FR_Idle

SpecWN == InitWN /\ [][WN_Next]_vars

\* where a written message stands in its volume
WN_First(m) == m.azimuth_number = 1
WN_Last(m) == m.azimuth_number = wn_radar[m.elevation_number]
WN_FirstSweep(m) == m.elevation_number = 1
WN_LastSweep(m) == m.elevation_number = Len(wn_radar)
WN_Written == {wn_writer[i] : i \in 1..Len(wn_writer)}

\* C6 as claimed: each of the five rules holds of every written ray, the
\* rays of single-ray sweeps included.
C6_StatusRulesAllHold ==
    \A m \in WN_Written :
        /\ (WN_First(m) /\ WN_FirstSweep(m)) => m.radial_status = 3
        /\ (WN_Last(m) /\ WN_LastSweep(m)) => m.radial_status = 4
        /\ (WN_First(m) /\ ~WN_FirstSweep(m)) => m.radial_status = 0
        /\ (WN_Last(m) /\ ~WN_LastSweep(m)) => m.radial_status = 2
        /\ (~WN_First(m) /\ ~WN_Last(m)) => m.radial_status = 1

\* C6 as amended: the five rules hold of every ray of a sweep with two or
\* more rays; the one ray of a single-ray sweep gets 3 in the first sweep,
\* otherwise 4 in the last sweep, otherwise 0.
C6_StatusRulesInOrder ==
    \A m \in WN_Written :
        IF wn_radar[m.elevation_number] >= 2
        THEN /\ (WN_First(m) /\ WN_FirstSweep(m)) => m.radial_status = 3
             /\ (WN_Last(m) /\ WN_LastSweep(m)) => m.radial_status = 4
             /\ (WN_First(m) /\ ~WN_FirstSweep(m)) => m.radial_status = 0
             /\ (WN_Last(m) /\ ~WN_LastSweep(m)) => m.radial_status = 2
             /\ (~WN_First(m) /\ ~WN_Last(m)) => m.radial_status = 1
        ELSE m.radial_status =
                 IF WN_FirstSweep(m) THEN 3
                 ELSE IF WN_LastSweep(m) THEN 4 ELSE 0

\* C6 witness: a volume of three sweeps, the middle one of a single ray and
\* the others of three, has been written whole
C6_Witness ==
    /\ wn_pc = "returned"
    /\ wn_radar = <<3, 1, 3>>
    /\ Len(wn_writer) = 7


----------------------------------------------------------------------------
(* lib.rs: write and vol_mode                                              *)
(*                                                                         *)
(* A sweep is [id, time, elevation]: time stands for sweep.time(), the     *)
(* time of its first ray, and elevation is in tenths of a degree.  The     *)
(* elevations are drawn from 0.5, 1.5 and 2.5 degrees, which f32 holds     *)
(* exactly, so that f32 subtraction and the comparisons against 0.1 and    *)
(* 0.05 are exact.  A written file is recorded as the sequence of sweeps   *)
(* handed to write_nexrad.                                                 *)

Elevations == {5, 15, 25}

TimeOf(sw) == sw.time
ElevationOf(sw) == sw.elevation

\* RadarFile::sort_sweeps_by_time
SortSweepsByTime(sweeps) ==
    StableSort([i \in 1..Len(sweeps) |-> TimeOf(sweeps[i])], sweeps)

\* RadarFile::sort_sweeps_by_elevation
SortSweepsByElevation(sweeps) ==
    StableSort([i \in 1..Len(sweeps) |-> ElevationOf(sweeps[i])], sweeps)

\* f32::signum of a difference of finite values: 1.0 for +0.0
Signum(d) == IF d >= 0 THEN 1 ELSE -1

\* (x).abs() < 0.05, x in tenths of a degree
Within005(d) == 2 * Abs(d) < 1

\* change > 0.1, change in tenths of a degree
Over01(change) == change > 1

\* the lowest elevation (the reduce in vol_mode)
MinElevation(sweeps) ==
    CHOOSE e \in {sweeps[i].elevation : i \in 1..Len(sweeps)} :
        \A i \in 1..Len(sweeps) : e <= sweeps[i].elevation

\* vol_mode: [ok, mode]; ok is FALSE where radar.sweeps[ii + 2] is out of
\* bounds.  ii is 0-based as in the source.
VolMode(sweeps) ==
    IF Len(sweeps) <= 1 THEN [ok |-> TRUE, mode |-> 1]
    ELSE IF Len(sweeps) = 2
    THEN [ok |-> TRUE, mode |-> Signum(sweeps[2].elevation - sweeps[1].elevation)]
    ELSE LET min_elev == MinElevation(sweeps)
             hits == {i \in 0..(Len(sweeps) - 1) :
                          Within005(sweeps[i + 1].elevation - min_elev)}
             ii == CHOOSE i \in hits : \A j \in hits : i <= j
         IN  IF ii > Len(sweeps) - 2 THEN [ok |-> TRUE, mode |-> -1]
             ELSE IF ii + 2 >= Len(sweeps) THEN [ok |-> FALSE, mode |-> 0]
             ELSE IF Within005(sweeps[ii + 3].elevation - sweeps[ii + 1].elevation)
             THEN [ok |-> TRUE, mode |-> 1]
             ELSE [ok |-> TRUE,
                   mode |-> Signum(sweeps[ii + 3].elevation
                                   - sweeps[ii + 2].elevation)]

\* write with neither write_volumes nor write_separate set: the sweeps are
\* sorted by time, then by elevation, and handed to write_nexrad, which
\* creates one file (create_new_file reads radar.sweeps[0])
\* the two sorts in the other order
PlainWriteMut(sweeps) == SortSweepsByTime(SortSweepsByElevation(sweeps))

PlainWrite(sweeps) == SortSweepsByElevation(SortSweepsByTime(sweeps))

\* the sweeps of a volume of n sweeps with the given elevations; times run
\* with the positions, or against them when reversed
\* the rays of the sweep with the given id, as the normalizer left them
SweepRays(id) == <<10 * id + 2, 10 * id + 1, 10 * id + 3>>

MakeSweeps(elevs, reversed) ==
    [i \in 1..Len(elevs) |->
        [id |-> i,
         time |-> IF reversed THEN Len(elevs) + 1 - i ELSE i,
         elevation |-> elevs[i],
         rays |-> SweepRays(i)]]

W_Init ==
    /\ \E elevs \in SeqsUpTo(Elevations, MaxVolSweeps), reversed \in BOOLEAN :
          w_radar = MakeSweeps(elevs, reversed)
    /\ w_options \in {[write_volumes |-> TRUE, write_separate |-> FALSE],
                      [write_volumes |-> FALSE, write_separate |-> TRUE],
                      [write_volumes |-> FALSE, write_separate |-> FALSE]}
    /\ w_vol = <<>>
    /\ w_vol_mode = 1
    /\ w_last = 0
    /\ w_next = 0
    /\ w_files = <<>>
    /\ w_pc = "start"

\* write_volumes: the sweeps are sorted by time, vol_mode is computed and
\* last is read from radar.sweeps[0]
W_StartVolumes ==
    /\ w_pc = "start"
    /\ w_options.write_volumes
    /\ LET sorted == SortSweepsByTime(w_radar)
           vm == VolMode(sorted)
       IN  /\ w_radar' = sorted
           /\ IF ~vm.ok \/ sorted = <<>>
              THEN /\ w_pc' = "panic_index"
                   /\ UNCHANGED <<w_vol_mode, w_last>>
              ELSE /\ w_pc' = "volumes"
                   /\ w_vol_mode' = vm.mode
                   /\ w_last' = sorted[1].elevation
    /\ UNCHANGED <<w_options, w_vol, w_next, w_files>>
    /\ UNCHANGED notW

\* one turn of the write_volumes loop: the sweep joins vol, or vol is
\* written and begun again with the sweep
W_VolumesSweep ==
    /\ w_pc = "volumes"
    /\ w_next < Len(w_radar)
    /\ LET sweep == w_radar[w_next + 1]
           elev == sweep.elevation
           change == IF w_vol_mode = 1 THEN elev - w_last ELSE w_last - elev
       IN  /\ IF w_vol = <<>> \/ Over01(change)
              THEN /\ w_vol' = Append(w_vol, sweep)
                   /\ w_files' = w_files
              ELSE /\ w_files' = Append(w_files, PlainWrite(w_vol))
                   /\ w_vol' = <<sweep>>
           /\ w_last' = elev
    /\ w_next' = w_next + 1
    /\ UNCHANGED <<w_radar, w_options, w_vol_mode, w_pc>>
    /\ UNCHANGED notW

\* the write_volumes loop is over: write returns
W_VolumesEnd ==
    /\ w_pc = "volumes"
    /\ w_next >= Len(w_radar)
    /\ w_pc' = "returned"
    /\ UNCHANGED <<w_radar, w_options, w_vol, w_vol_mode, w_last, w_next, w_files>>
    /\ UNCHANGED notW

\* write_separate: the sweeps are sorted by time
W_StartSeparate ==
    /\ w_pc = "start"
    /\ ~w_options.write_volumes
    /\ w_options.write_separate
    /\ w_radar' = SortSweepsByTime(w_radar)
    /\ w_pc' = "separate"
    /\ UNCHANGED <<w_options, w_vol, w_vol_mode, w_last, w_next, w_files>>
    /\ UNCHANGED notW

\* one turn of the write_separate loop: the sweep is written alone
W_SeparateSweep ==
    /\ w_pc = "separate"
    /\ w_next < Len(w_radar)
    /\ w_files' = Append(w_files, PlainWrite(<<w_radar[w_next + 1]>>))
    /\ w_next' = w_next + 1
    /\ UNCHANGED <<w_radar, w_options, w_vol, w_vol_mode, w_last, w_pc>>
    /\ UNCHANGED notW

W_SeparateEnd ==
    /\ w_pc = "separate"
    /\ w_next >= Len(w_radar)
    /\ w_pc' = "returned"
    /\ UNCHANGED <<w_radar, w_options, w_vol, w_vol_mode, w_last, w_next, w_files>>
    /\ UNCHANGED notW

\* neither flag: the volume is written to one file
W_Plain ==
    /\ w_pc = "start"
    /\ ~w_options.write_volumes
    /\ ~w_options.write_separate
    /\ w_radar' = PlainWrite(w_radar)
    /\ IF w_radar = <<>>
       THEN /\ w_pc' = "panic_index"
            /\ w_files' = w_files
       ELSE /\ w_pc' = "returned"
            /\ w_files' = Append(w_files, PlainWrite(w_radar))
    /\ UNCHANGED <<w_options, w_vol, w_vol_mode, w_last, w_next>>
    /\ UNCHANGED notW

W_Next ==
    \/ W_StartVolumes
    \/ W_VolumesSweep
    \/ W_VolumesEnd
    \/ W_StartSeparate
    \/ W_SeparateSweep
    \/ W_SeparateEnd
    \/ W_Plain

\* the initial states of SpecW: the pass is started, the others are idle
InitW == W_Init /\ HRD_Idle /\ RN_Idle /\ WN_Idle /\ NZ_Idle /\ AO_Idle /\ RT_Idle /\ PD_Idle /\ Q_Idle /\ DR_Idle /\ CV_Idle /\ RD_Idle /\ RF_Idle /\ FR_Idle

SpecW == InitW /\ [][W_Next]_vars

W_WrittenIds == {sw.id : sw \in UNION {Range(w_files[k]) : k \in 1..Len(w_files)}}
W_Elevations(file) == [i \in 1..Len(file) |-> file[i].elevation]

\* C7: with write_volumes, when write returns every sweep of the volume is
\* in one of the files written, the sweeps of the last volume included;
\* the elevations 0.5, 1.5, 2.5, 0.5, 1.5 give two files holding
\* 0.5, 1.5, 2.5 and 0.5, 1.5.
C7_EveryVolumeWritten ==
    (w_pc = "returned" /\ w_options.write_volumes)
        => /\ W_WrittenIds = {sw.id : sw \in Range(w_radar)}
           /\ (W_Elevations(w_radar) = <<5, 15, 25, 5, 15>>)
                  => (/\ Len(w_files) = 2
                      /\ W_Elevations(w_files[1]) = <<5, 15, 25>>
                      /\ W_Elevations(w_files[2]) = <<5, 15>>)

\* C7, the worked example alone as claimed: the elevations 0.5, 1.5, 2.5,
\* 0.5, 1.5 leave two files behind
C7_ExampleS6 ==
    (/\ w_pc = "returned"
     /\ w_options.write_volumes
     /\ W_Elevations(w_radar) = <<5, 15, 25, 5, 15>>)
        => Len(w_files) = 2


----------------------------------------------------------------------------
(* lib.rs: the normalizer operations of Sweep and RadarFile                *)
(*                                                                         *)
(* A ray is [id, azimuth, time] and a sweep is [rays, elevation].          *)
(* Azimuths are whole degrees, which f32 holds exactly together with all   *)
(* the sums and differences formed here, so integer arithmetic gives what  *)
(* the f32 arithmetic gives.  Each operation is a function of the volume;  *)
(* where the source panics the function yields ok = FALSE.                 *)

\* 360.0: a full circle, in rem_euclid and in the walks
FullCircle == 360
\* 300.0: a step larger than this is taken for a wrap
WrapLimit == 300
\* azimuths()[0..5]: the rays the direction is read from
DirectionRays == 5
\* the trailing rays kept only when more than this many: > 20
TrailingLimit == 20

\* f32::rem_euclid(360.0) on whole degrees
RemEuclid(a) == a % FullCircle

\* Sweep::correct_azimuth
CorrectAzimuth(sweep) ==
    [sweep EXCEPT !.rays =
        [i \in 1..Len(sweep.rays) |->
            [sweep.rays[i] EXCEPT !.azimuth = RemEuclid(sweep.rays[i].azimuth)]]]

AzimuthOf(ray) == ray.azimuth

\* Sweep::sort_rays_by_azimuth
SortRaysSweep(sweep) ==
    LET c == CorrectAzimuth(sweep)
    IN  [c EXCEPT !.rays =
            StableSort([i \in 1..Len(c.rays) |-> AzimuthOf(c.rays[i])], c.rays)]

\* the direction block of trim_rays and split_overlap_rays; the sweep has
\* at least DirectionRays rays
Direction(rays) ==
    LET dir == SumSeq([i \in 1..DirectionRays |-> rays[i].azimuth])
    IN  IF dir > 0 \/ dir < -300 THEN 1 ELSE -1

\* small_change.abs() > 300.0
IsWrap(small_change) == Abs(small_change) > WrapLimit

\* the change after ray i (0-based, i > 0) of a walk
\* the same step with no wrap taken
StepChangeMut(change, direction, azimuth, last_change) ==
    change + direction * (azimuth - last_change)

StepChange(change, direction, azimuth, last_change) ==
    LET d == azimuth - last_change
        small_change == IF IsWrap(d) THEN FullCircle - Abs(d) ELSE d
    IN  change + direction * small_change

\* change >= 360.0
FullTurnMut(change) == change > FullCircle
FullTurn(change) == change >= FullCircle

\* rays[from..to] of the source: 0-based, to excluded
SliceMut(rays, from, to) == SubSeq(rays, from + 1, Min(to + 1, Len(rays)))
Slice(rays, from, to) == SubSeq(rays, from + 1, to)

\* the loop of Sweep::trim_rays from ray i on: the index at which the rays
\* are cut, or the number of rays when the loop ends without a cut
RECURSIVE TrimCut(_, _, _, _, _)
TrimCut(rays, direction, i, change, last_change) ==
    IF i >= Len(rays) THEN Len(rays)
    ELSE LET c == IF i = 0 THEN 0
                  ELSE StepChange(change, direction, rays[i + 1].azimuth,
                                  last_change)
         IN  IF FullTurn(c) THEN i
             ELSE TrimCut(rays, direction, i + 1, c, rays[i + 1].azimuth)

\* Sweep::trim_rays; azimuths()[0..5] panics on a sweep of fewer rays
TrimRaysSweep(sweep) ==
    LET c == CorrectAzimuth(sweep)
    IN  IF Len(c.rays) < DirectionRays THEN [ok |-> FALSE, sweep |-> c]
        ELSE [ok |-> TRUE,
              sweep |-> [c EXCEPT !.rays =
                  Slice(c.rays, 0,
                        TrimCut(c.rays, Direction(c.rays), 0, 0, 0))]]

\* the inner loop of RadarFile::split_overlap_rays from ray i on: the
\* sweeps' rays pushed so far, and ray_idx
RECURSIVE SplitWalk(_, _, _, _, _, _, _)
SplitWalk(rays, direction, i, change, last_change, ray_idx, pushed) ==
    IF i >= Len(rays) THEN [pushed |-> pushed, ray_idx |-> ray_idx]
    ELSE LET c == IF i = 0 THEN 0
                  ELSE StepChange(change, direction, rays[i + 1].azimuth,
                                  last_change)
         IN  IF FullTurn(c)
             THEN SplitWalk(rays, direction, i + 1, c - FullCircle,
                            rays[i + 1].azimuth, i,
                            Append(pushed, Slice(rays, ray_idx, i)))
             ELSE SplitWalk(rays, direction, i + 1, c,
                            rays[i + 1].azimuth, ray_idx, pushed)

\* sweep.nrays() - ray_idx > 20
KeepTrailing(nrays, ray_idx) == nrays - ray_idx > TrailingLimit

\* the body of split_overlap_rays for one sweep: the new sweeps it pushes
SplitSweep(sweep) ==
    LET c == CorrectAzimuth(sweep)
    IN  IF Len(c.rays) < DirectionRays THEN [ok |-> FALSE, sweeps |-> <<>>]
        ELSE LET w == SplitWalk(c.rays, Direction(c.rays), 0, 0, 0, 0, <<>>)
                 all == IF KeepTrailing(Len(c.rays), w.ray_idx)
                        THEN Append(w.pushed,
                                    Slice(c.rays, w.ray_idx, Len(c.rays)))
                        ELSE w.pushed
             IN  [ok |-> TRUE,
                  sweeps |-> [k \in 1..Len(all) |-> [c EXCEPT !.rays = all[k]]]]

\* sweep.time(): the time of rays[0]
SweepTime(sweep) == sweep.rays[1].time

\* the operations on a volume: [ok, sweeps]
OpCorrectAzimuth(sweeps) ==
    [ok |-> TRUE,
     sweeps |-> [k \in 1..Len(sweeps) |-> CorrectAzimuth(sweeps[k])]]

OpSortRaysByAzimuth(sweeps) ==
    [ok |-> TRUE,
     sweeps |-> [k \in 1..Len(sweeps) |-> SortRaysSweep(sweeps[k])]]

OpTrimRays(sweeps) ==
    [ok |-> \A k \in 1..Len(sweeps) : TrimRaysSweep(sweeps[k]).ok,
     sweeps |-> [k \in 1..Len(sweeps) |-> TrimRaysSweep(sweeps[k]).sweep]]

OpSplitOverlapRays(sweeps) ==
    [ok |-> \A k \in 1..Len(sweeps) : SplitSweep(sweeps[k]).ok,
     sweeps |-> Flatten([k \in 1..Len(sweeps) |-> SplitSweep(sweeps[k]).sweeps])]

\* sweep.time() is only called when there are two sweeps to compare
OpSortSweepsByTime(sweeps) ==
    [ok |-> Len(sweeps) < 2 \/ \A k \in 1..Len(sweeps) : sweeps[k].rays # <<>>,
     sweeps |-> StableSort([k \in 1..Len(sweeps) |-> SweepTime(sweeps[k])],
                           sweeps)]

OpSortSweepsByElevation(sweeps) ==
    [ok |-> TRUE, sweeps |-> SortSweepsByElevation(sweeps)]

\* the azimuths a volume's sweeps are drawn from: n rays evenly spaced from
\* start by step degrees (not yet reduced modulo 360), or a short sequence
\* over a few azimuths
Starts == {0, 350}
Steps == {-45, 15, 45, 90}
FreeAzimuths == {0, 170, 350}

EvenAzimuths(start, step, n) == [i \in 1..n |-> start + (i - 1) * step]

AzimuthPatterns ==
    {EvenAzimuths(st, sp, n) : st \in Starts, sp \in Steps, n \in 1..MaxRays}
        \cup UNION {[1..n -> FreeAzimuths] : n \in DirectionRays..ShortLen}

\* a volume of nsw sweeps with the same azimuths; elevations fall with the
\* position, and times run with the positions or, reversed, against them
MakeVolume(azs, nsw, reversed) ==
    [k \in 1..nsw |->
        [elevation |-> 5 + 10 * (nsw - k),
         rays |-> [i \in 1..Len(azs) |->
             [id |-> (k - 1) * Len(azs) + i,
              azimuth |-> azs[i],
              time |-> (IF reversed THEN nsw - k ELSE k - 1) * Len(azs) + i]]]]

NZ_Init ==
    /\ \E azs \in AzimuthPatterns, nsw \in 1..MaxNzSweeps, reversed \in BOOLEAN :
          /\ reversed => nsw > 1
          /\ nz_input = MakeVolume(azs, nsw, reversed)
    /\ nz_radar = nz_input
    /\ nz_op = "none"
    /\ nz_count = 0
    /\ nz_pc = "ready"

\* radar is replaced by the operation's result, or the operation panics
NZ_Apply(op, result) ==
    /\ nz_pc = "ready"
    /\ nz_op' = op
    /\ nz_count' = 1
    /\ nz_pc' = IF result.ok THEN "done" ELSE "panic"
    /\ nz_radar' = IF result.ok THEN result.sweeps ELSE nz_radar
    /\ UNCHANGED nz_input
    /\ UNCHANGED notNz

NZ_CorrectAzimuth == NZ_Apply("correct_azimuth", OpCorrectAzimuth(nz_radar))

NZ_SortRaysByAzimuth ==
    NZ_Apply("sort_rays_by_azimuth", OpSortRaysByAzimuth(nz_radar))

NZ_TrimRays == NZ_Apply("trim_rays", OpTrimRays(nz_radar))

NZ_SplitOverlapRays ==
    NZ_Apply("split_overlap_rays", OpSplitOverlapRays(nz_radar))

NZ_SortSweepsByTime ==
    NZ_Apply("sort_sweeps_by_time", OpSortSweepsByTime(nz_radar))

NZ_SortSweepsByElevation ==
    NZ_Apply("sort_sweeps_by_elevation", OpSortSweepsByElevation(nz_radar))

\* the result of the operation named op on a volume
OpResult(op, sweeps) ==
    CASE op = "correct_azimuth" -> OpCorrectAzimuth(sweeps)
      [] op = "sort_rays_by_azimuth" -> OpSortRaysByAzimuth(sweeps)
      [] op = "trim_rays" -> OpTrimRays(sweeps)
      [] op = "split_overlap_rays" -> OpSplitOverlapRays(sweeps)
      [] op = "sort_sweeps_by_time" -> OpSortSweepsByTime(sweeps)
      [] op = "sort_sweeps_by_elevation" -> OpSortSweepsByElevation(sweeps)

\* the operation just applied is applied once more, to its own result
NZ_Repeat ==
    /\ nz_pc = "done"
    /\ nz_count < MaxApplications
    /\ LET result == OpResult(nz_op, nz_radar)
       IN  /\ nz_input' = nz_radar
           /\ nz_radar' = IF result.ok THEN result.sweeps ELSE nz_radar
           /\ nz_pc' = IF result.ok THEN "done" ELSE "panic"
    /\ nz_count' = nz_count + 1
    /\ UNCHANGED nz_op
    /\ UNCHANGED notNz

NZ_Next ==
    \/ NZ_Repeat
    \/ NZ_CorrectAzimuth
    \/ NZ_SortRaysByAzimuth
    \/ NZ_TrimRays
    \/ NZ_SplitOverlapRays
    \/ NZ_SortSweepsByTime
    \/ NZ_SortSweepsByElevation

\* the initial states of SpecNZ: the pass is started, the others are idle
InitNZ == NZ_Init /\ HRD_Idle /\ RN_Idle /\ WN_Idle /\ W_Idle /\ AO_Idle /\ RT_Idle /\ PD_Idle /\ Q_Idle /\ DR_Idle /\ CV_Idle /\ RD_Idle /\ RF_Idle /\ FR_Idle

SpecNZ == InitNZ /\ [][NZ_Next]_vars


\* the rays of a volume, sweep after sweep
NZ_AllRays(sweeps) == Flatten([k \in 1..Len(sweeps) |-> sweeps[k].rays])

NZ_Ids(rays) == {rays[i].id : i \in 1..Len(rays)}

\* the rays of the volume after the operation that come from sweep j of
\* the volume before it, in the order they have after it
NZ_RaysFrom(j) ==
    LET ids == NZ_Ids(nz_input[j].rays)
        FromJ(ray) == ray.id \in ids
    IN  SelectSeq(NZ_AllRays(nz_radar), FromJ)

NZ_SplitDone == nz_op = "split_overlap_rays" /\ nz_pc = "done"

NZ_Azimuths(sweep) == [i \in 1..Len(sweep.rays) |-> sweep.rays[i].azimuth]
NZ_Sizes(sweeps) == [k \in 1..Len(sweeps) |-> Len(sweeps[k].rays)]

\* every sweep of the volume before the operation has n >= 5 rays, each
\* step degrees clockwise of the one before
NZ_EvenInput(step, n) ==
    \A j \in 1..Len(nz_input) :
        /\ Len(nz_input[j].rays) = n
        /\ n >= 5
        /\ \A i \in 1..(n - 1) :
              nz_input[j].rays[i + 1].azimuth - nz_input[j].rays[i].azimuth = step

\* the sizes one such sweep is split into: a sweep of 360/step rays for each
\* full turn completed before the last ray, and the rest if more than 20
NZ_EvenSizes(step, n) ==
    LET perTurn == 360 \div step
        cuts == (n - 1) \div perTurn
        rest == n - cuts * perTurn
    IN  [k \in 1..cuts |-> perTurn] \o (IF rest > 20 THEN <<rest>> ELSE <<>>)

NZ_IsS5 ==
    /\ Len(nz_input) = 1
    /\ [i \in 1..Len(nz_input[1].rays) |-> nz_input[1].rays[i].azimuth % 360]
           = <<0, 90, 180, 270, 0, 90, 180, 270>>

C10_OperationsTotal ==
    (\A j \in 1..Len(nz_input) : nz_input[j].rays # <<>>) => nz_pc # "panic"


\* C11: applying a normalizer operation a second time to its own result
\* completes and leaves the volume as the first application left it.
C11_OperationsIdempotent ==
    nz_count >= 2 => (nz_pc = "done" /\ nz_radar = nz_input)


----------------------------------------------------------------------------
(* lib.rs: RadyOptions::apply_options, the normalization step of convert   *)
(*                                                                         *)
(* The volume is as a reader hands it over: the azimuths are those of the  *)
(* file (ryib.azimuth, msg_31_header.azimuth_angle) and need not lie in    *)
(* [0, 360).  override_radar only renames the volume and is left out.      *)

AoPatterns ==
    {EvenAzimuths(st, sp, n) : st \in Starts, sp \in Steps, n \in 1..MaxAoRays}

AO_Init ==
    /\ \E azs \in AoPatterns, nsw \in 1..MaxNzSweeps :
          ao_radar = MakeVolume(azs, nsw, FALSE)
    /\ ao_options \in [trim_rays : BOOLEAN, split_overlap_rays : BOOLEAN,
                       sort_rays_by_azimuth : BOOLEAN, location : BOOLEAN]
    /\ ao_pc = "trim"

\* one if statement of apply_options: when the flag is set the operation is
\* applied to radar, and its panic ends apply_options
AO_Step(at, flag, result, next) ==
    /\ ao_pc = at
    /\ IF flag /\ ~result.ok
       THEN /\ ao_pc' = "panic"
            /\ UNCHANGED ao_radar
       ELSE /\ ao_pc' = next
            /\ ao_radar' = IF flag THEN result.sweeps ELSE ao_radar
    /\ UNCHANGED ao_options
    /\ UNCHANGED notAo

\* if self.trim_rays { radar.trim_rays(); }
AO_TrimRays ==
    AO_Step("trim", ao_options.trim_rays, OpTrimRays(ao_radar), "split")

\* if self.split_overlap_rays { radar.split_overlap_rays(); }
AO_SplitOverlapRays ==
    AO_Step("split", ao_options.split_overlap_rays,
            OpSplitOverlapRays(ao_radar), "sort")

\* if self.sort_rays_by_azimuth { radar.sort_rays_by_azimuth(); }
AO_SortRaysByAzimuth ==
    AO_Step("sort", ao_options.sort_rays_by_azimuth,
            OpSortRaysByAzimuth(ao_radar), "location")

\* if self.location { println!(.., radar.sweeps[0].latitude, ..) }
AO_Location ==
    /\ ao_pc = "location"
    /\ ao_pc' = IF ao_options.location /\ ao_radar = <<>>
                THEN "panic" ELSE "returned"
    /\ UNCHANGED <<ao_radar, ao_options>>
    /\ UNCHANGED notAo

AO_Next ==
    \/ AO_TrimRays
    \/ AO_SplitOverlapRays
    \/ AO_SortRaysByAzimuth
    \/ AO_Location

\* the initial states of SpecAO: the pass is started, the others are idle
InitAO == AO_Init /\ HRD_Idle /\ RN_Idle /\ WN_Idle /\ W_Idle /\ NZ_Idle /\ RT_Idle /\ PD_Idle /\ Q_Idle /\ DR_Idle /\ CV_Idle /\ RD_Idle /\ RF_Idle /\ FR_Idle

SpecAO == InitAO /\ [][AO_Next]_vars

\* C12: when apply_options has returned, every ray azimuth of every sweep
\* lies in [0, 360), whichever flags are set.
C12_AzimuthsCanonical ==
    ao_pc = "returned" =>
        \A k \in 1..Len(ao_radar) : \A i \in 1..Len(ao_radar[k].rays) :
            /\ 0 <= ao_radar[k].rays[i].azimuth
            /\ ao_radar[k].rays[i].azimuth < 360


----------------------------------------------------------------------------
(* nexrad.rs: write_nexrad followed by read_nexrad of the file written     *)
(*                                                                         *)
(* The file is the compression record create_new_file writes and the       *)
(* messages write_sweep appends (wn_writer).                               *)

\* writer.write_all(&[0u8; 12]): bytes 4..6 of what create_new_file writes
\* after the volume header
WrittenRecord == <<0, 0>>

\* match &compression_record[4..6]: the message body read_nexrad works on.
\* b"BZ" hands the records to decompress_records, which yields the
\* messages; b"\x00\x00" and b"\t\x80" call reader.read_exact(&mut buf) on
\* the empty buf, which reads no byte; anything else panics
ReadBody(record, body) ==
    IF record = <<66, 90>> THEN [ok |-> TRUE, buf |-> body]
    ELSE IF record = <<0, 0>> \/ record = <<9, 128>>
    THEN [ok |-> TRUE, buf |-> <<>>]
    ELSE [ok |-> FALSE, buf |-> <<>>]

\* the loop of read_nexrad over buf from message i on (0-based): the ray
\* counts of the sweeps pushed; nrays counts the rays of the open sweep
RECURSIVE ReadSweeps(_, _, _, _)
ReadSweeps(buf, i, sweeps, nrays) ==
    IF i >= Len(buf) THEN sweeps
    ELSE IF ~IsMsg31(buf[i + 1]) THEN ReadSweeps(buf, i + 1, sweeps, nrays)
    ELSE IF IsSweepEnd(buf[i + 1].radial_status)
    THEN ReadSweeps(buf, i + 1, Append(sweeps, nrays + 1), 0)
    ELSE ReadSweeps(buf, i + 1, sweeps, nrays + 1)

RT_Init ==
    /\ rt_record = WrittenRecord
    /\ rt_sweeps = <<>>
    /\ rt_pc = "file"

\* read_nexrad on the file write_nexrad has finished
RT_ReadNexrad ==
    /\ wn_pc = "returned"
    /\ rt_pc = "file"
    /\ LET body == ReadBody(rt_record, wn_writer)
       IN  IF body.ok
           THEN /\ rt_sweeps' = ReadSweeps(body.buf, 0, <<>>, 0)
                /\ rt_pc' = "returned"
           ELSE /\ rt_pc' = "panic"
                /\ UNCHANGED rt_sweeps
    /\ UNCHANGED rt_record
    /\ UNCHANGED notRt

RT_Next ==
    \/ WN_WriteRay
    \/ WN_Return
    \/ RT_ReadNexrad

\* the initial states of SpecRT: a volume is about to be written and read
\* back, the other passes are idle
InitRT == WN_Init /\ RT_Init /\ HRD_Idle /\ RN_Idle /\ W_Idle /\ NZ_Idle /\ AO_Idle /\ PD_Idle /\ Q_Idle /\ DR_Idle /\ CV_Idle /\ RD_Idle /\ RF_Idle /\ FR_Idle

SpecRT == InitRT /\ [][RT_Next]_vars

\* C13: the volume read back from the file has as many sweeps as the
\* volume written, and each sweep as many rays.
C13_RoundTripKeepsShape ==
    rt_pc = "returned" => rt_sweeps = wn_radar


----------------------------------------------------------------------------
(* nexrad.rs: pack_data and pack_msg_31_header, the bytes of one ray       *)
(*                                                                         *)
(* A struct is given by its fields in declaration order, each <<size of    *)
(* an element, number of elements>>.  Bytes are numbers 0..255.  Only the  *)
(* block type, the block name and the pointer table are written out; the   *)
(* other bytes of a block are written as 0, their values play no part in   *)
(* where a block lies.                                                     *)

Msg31HeaderLayout ==
    <<(<<1, 4>>), (<<4, 1>>), (<<2, 1>>), (<<2, 1>>), (<<4, 1>>), (<<1, 1>>),
      (<<1, 1>>), (<<2, 1>>), (<<1, 1>>), (<<1, 1>>), (<<1, 1>>), (<<1, 1>>),
      (<<4, 1>>), (<<1, 1>>), (<<1, 1>>), (<<2, 1>>)>>

DataBlockLayout ==
    <<(<<1, 1>>), (<<1, 3>>), (<<4, 1>>), (<<2, 1>>), (<<2, 1>>), (<<2, 1>>),
      (<<2, 1>>), (<<2, 1>>), (<<1, 1>>), (<<1, 1>>), (<<4, 1>>), (<<4, 1>>)>>

VolumeDataBlockLayout ==
    <<(<<1, 1>>), (<<1, 3>>), (<<2, 1>>), (<<1, 1>>), (<<1, 1>>), (<<4, 1>>),
      (<<4, 1>>), (<<2, 1>>), (<<2, 1>>), (<<4, 1>>), (<<4, 1>>), (<<4, 1>>),
      (<<4, 1>>), (<<4, 1>>), (<<2, 1>>), (<<2, 1>>)>>

ElevationDataBlockLayout ==
    <<(<<1, 1>>), (<<1, 3>>), (<<2, 1>>), (<<2, 1>>), (<<4, 1>>)>>

RadialDataBlockLayout ==
    <<(<<1, 1>>), (<<1, 3>>), (<<2, 1>>), (<<2, 1>>), (<<4, 1>>), (<<4, 1>>),
      (<<2, 1>>), (<<2, 1>>)>>

AlignUp(offset, align) == ((offset + align - 1) \div align) * align

\* std::mem::size_of of a #[repr(C)] struct: every field at the next
\* multiple of its alignment, the whole rounded up to the largest alignment
RECURSIVE EndOffset(_, _)
EndOffset(layout, n) ==
    IF n = 0 THEN 0
    ELSE AlignUp(EndOffset(layout, n - 1), layout[n][1])
             + layout[n][1] * layout[n][2]

MaxAlign(layout, n) ==
    LET aligns == {1} \cup {layout[k][1] : k \in 1..n}
    IN  CHOOSE m \in aligns : \A a \in aligns : a <= m

SizeOf(layout) ==
    AlignUp(EndOffset(layout, Len(layout)), MaxAlign(layout, Len(layout)))

\* the length of serialize(&block): fixed-width integers and byte arrays
\* one after the other, without padding
SerializedLen(layout) ==
    SumSeq([n \in 1..Len(layout) |-> layout[n][1] * layout[n][2]])

Zeros(n) == [i \in 1..n |-> 0]

\* the ASCII bytes of the block names
NameBytes(name) ==
    CASE name = "VOL" -> <<86, 79, 76>>
      [] name = "ELV" -> <<69, 76, 86>>
      [] name = "RAD" -> <<82, 65, 68>>
      [] name = "REF" -> <<82, 69, 70>>
      [] name = "VEL" -> <<86, 69, 76>>
      [] name = "SW" -> <<83, 87>>
      [] name = "RHO" -> <<82, 72, 79>>
      [] name = "PHI" -> <<80, 72, 73>>
      [] name = "ZDR" -> <<90, 68, 82>>

\* field_name.resize(3, 0)
Resize3(bytes) == [i \in 1..3 |-> IF i <= Len(bytes) THEN bytes[i] ELSE 0]

\* serialize of a block whose first fields are the block type, one byte,
\* and the three bytes of the name
SerializeBlock(block_type, name, layout) ==
    <<block_type>> \o name \o Zeros(SerializedLen(layout) - 4)

FixedBlocks == <<"VOL", "ELV", "RAD">>
FieldOrder == <<"REF", "VEL", "SW", "RHO", "PHI", "ZDR">>

FixedLayout(name) ==
    CASE name = "VOL" -> VolumeDataBlockLayout
      [] name = "ELV" -> ElevationDataBlockLayout
      [] name = "RAD" -> RadialDataBlockLayout

\* pack_data_array::<u16> for PHI, ::<u8> otherwise: bytes per gate
WordBytes(field) == IF field = "PHI" THEN 2 ELSE 1

\* next_ptr += new_data.len() + array_data.len() + 12
FieldAdvanceMut(new_len, array_len) == new_len + array_len
FieldAdvance(new_len, array_len) == new_len + array_len + 12

\* u32::to_be_bytes
U32Bytes(v) ==
    <<v \div 16777216, (v \div 65536) % 256, (v \div 256) % 256, v % 256>>

\* ptrs.resize(8, 0)
ResizePtrs(ptrs) == [j \in 1..8 |-> IF j <= Len(ptrs) THEN ptrs[j] ELSE 0]


PD_Init ==
    /\ pd_fields \in SUBSET Range(FieldOrder)
    /\ pd_ngates \in 0..MaxPackGates
    /\ pd_at = 0
    /\ pd_next_ptr = SizeOf(Msg31HeaderLayout) + 10 * 4
    /\ pd_ptrs = <<>>
    /\ pd_data = <<>>
    /\ pd_msg = <<>>
    /\ pd_pc = "blocks"

\* one turn of the loop over "VOL", "ELV", "RAD"
PD_FixedBlock ==
    /\ pd_pc = "blocks"
    /\ LET name == FixedBlocks[pd_at + 1]
       IN  /\ pd_ptrs' = Append(pd_ptrs, pd_next_ptr)
           /\ pd_next_ptr' = pd_next_ptr + SizeOf(FixedLayout(name))
           /\ pd_data' = pd_data
                  \o SerializeBlock(82, NameBytes(name), FixedLayout(name))
    /\ pd_at' = pd_at + 1
    /\ pd_pc' = IF pd_at + 1 < Len(FixedBlocks) THEN "blocks" ELSE "fields"
    /\ UNCHANGED <<pd_fields, pd_ngates, pd_msg>>
    /\ UNCHANGED notPd

\* one turn of the loop over the field names, the ray has no such field
PD_SkipField ==
    /\ pd_pc = "fields"
    /\ pd_at - Len(FixedBlocks) < Len(FieldOrder)
    /\ FieldOrder[pd_at - Len(FixedBlocks) + 1] \notin pd_fields
    /\ pd_at' = pd_at + 1
    /\ UNCHANGED <<pd_fields, pd_ngates, pd_next_ptr, pd_ptrs, pd_data, pd_msg, pd_pc>>
    /\ UNCHANGED notPd

\* one turn of the loop over the field names, the field is packed
PD_PackField ==
    /\ pd_pc = "fields"
    /\ pd_at - Len(FixedBlocks) < Len(FieldOrder)
    /\ FieldOrder[pd_at - Len(FixedBlocks) + 1] \in pd_fields
    /\ LET field == FieldOrder[pd_at - Len(FixedBlocks) + 1]
           new_data == SerializeBlock(68, Resize3(NameBytes(field)),
                                      DataBlockLayout)
           array_data == Zeros(pd_ngates * WordBytes(field))
       IN  /\ pd_ptrs' = Append(pd_ptrs, pd_next_ptr)
           /\ pd_next_ptr' = pd_next_ptr
                  + FieldAdvance(Len(new_data), Len(array_data))
           /\ pd_data' = pd_data \o new_data \o array_data \o Zeros(12)
    /\ pd_at' = pd_at + 1
    /\ UNCHANGED <<pd_fields, pd_ngates, pd_msg, pd_pc>>
    /\ UNCHANGED notPd

\* the loops are over: ptrs.resize(8, 0) and pack_data returns
PD_Resize ==
    /\ pd_pc = "fields"
    /\ pd_at - Len(FixedBlocks) >= Len(FieldOrder)
    /\ pd_ptrs' = ResizePtrs(pd_ptrs)
    /\ pd_pc' = "header"
    /\ UNCHANGED <<pd_fields, pd_ngates, pd_at, pd_next_ptr, pd_data, pd_msg>>
    /\ UNCHANGED notPd

\* pack_msg_31_header: the header, the pointers and extra = 10 - ptrs.len()
\* zero pointers
PD_PackMsg31Header ==
    /\ pd_pc = "header"
    /\ pd_msg' = Zeros(SerializedLen(Msg31HeaderLayout))
           \o Flatten([j \in 1..Len(pd_ptrs) |-> U32Bytes(pd_ptrs[j])])
           \o Zeros((10 - Len(pd_ptrs)) * 4)
    /\ pd_pc' = "done"
    /\ UNCHANGED <<pd_fields, pd_ngates, pd_at, pd_next_ptr, pd_ptrs, pd_data>>
    /\ UNCHANGED notPd

PD_Next ==
    \/ PD_FixedBlock
    \/ PD_SkipField
    \/ PD_PackField
    \/ PD_Resize
    \/ PD_PackMsg31Header

\* the initial states of SpecPD: the pass is started, the others are idle
InitPD == PD_Init /\ HRD_Idle /\ RN_Idle /\ WN_Idle /\ W_Idle /\ NZ_Idle /\ AO_Idle /\ RT_Idle /\ Q_Idle /\ DR_Idle /\ CV_Idle /\ RD_Idle /\ RF_Idle /\ FR_Idle

SpecPD == InitPD /\ [][PD_Next]_vars

\* the bytes write_sweep writes from the start of the Msg31Header on
PD_Written == pd_msg \o pd_data

\* the pointer in slot j (1..10) of the pointer table as written
PD_PtrAt(j) ==
    LET at == SerializedLen(Msg31HeaderLayout) + 4 * (j - 1)
    IN  PD_Written[at + 1] * 16777216 + PD_Written[at + 2] * 65536
            + PD_Written[at + 3] * 256 + PD_Written[at + 4]

\* the fields of the ray in the priority order
PD_Present ==
    LET Has(f) == f \in pd_fields
    IN  SelectSeq(FieldOrder, Has)

\* the names the slots stand for: VOL, ELV, RAD, then the present fields
PD_SlotNames == FixedBlocks \o PD_Present

\* C14: in the bytes written for a ray, every nonzero pointer of the table,
\* taken as an offset from the start of the Msg31Header, is the offset of
\* the first byte of a block whose name (bytes 1..4 of the block,
\* zero-padded) is the name of its slot: VOL, ELV, RAD, then the fields
\* present in the order REF, VEL, SW, RHO, PHI, ZDR.
C14_PointersHitTheirBlocks ==
    pd_pc = "done" =>
        \A j \in 1..10 :
            PD_PtrAt(j) # 0 =>
                /\ j <= Len(PD_SlotNames)
                /\ PD_PtrAt(j) + 4 <= Len(PD_Written)
                /\ SubSeq(PD_Written, PD_PtrAt(j) + 2, PD_PtrAt(j) + 4)
                       = Resize3(NameBytes(PD_SlotNames[j]))
                /\ PD_Written[PD_PtrAt(j) + 1] = (IF j <= 3 THEN 82 ELSE 68)

\* C14 witness: a ray with the fields REF, SW and PHI and two gates has
\* been packed, six slots of the table are nonzero
C14_Witness ==
    /\ pd_pc = "done"
    /\ pd_fields = {"REF", "SW", "PHI"}
    /\ pd_ngates = 2
    /\ \A j \in 1..6 : PD_PtrAt(j) # 0


----------------------------------------------------------------------------
(* nexrad.rs: scale_offset, pack_data_array and the decoding closure of    *)
(* read_data_block, for one gate                                           *)
(*                                                                         *)
(* Values are fractions [num, den] with den > 0, and the arithmetic on     *)
(* them is exact: scale and offset are the decimal constants of the        *)
(* source in ten-thousandths, and the rounding of the f32 and f64          *)
(* operations is not represented.                                          *)

\* the denominator of scale and offset
Tenk == 10000

\* scale_offset: (scale, offset) in ten-thousandths
ScaleOffset(data_type) ==
    CASE data_type = "REF" -> [scale |-> 20000, offset |-> 660000]
      [] data_type = "VEL" -> [scale |-> 20000, offset |-> 1290000]
      [] data_type = "SW" -> [scale |-> 20000, offset |-> 1299000]
      [] data_type = "ZDR" -> [scale |-> 160000, offset |-> 1280000]
      [] data_type = "PHI" -> [scale |-> 28261, offset |-> 20000]
      [] data_type = "RHO" -> [scale |-> 3000000, offset |-> -605000]
      [] data_type = "CFP" -> [scale |-> 10000, offset |-> 80000]

\* the names read_data_block decodes (after name.trim())
ReadFields == {"REF", "VEL", "SW", "ZDR", "PHI", "RHO", "CFP"}

\* max_val as pack_data passes it: 65535.0 for PHI, 255.0 otherwise
MaxVal(field) == IF field = "PHI" THEN 65535 ELSE 255

\* val = (data[i] * scale as f64) + offset as f64, as a fraction
ScaledVal(field, v) ==
    [num |-> v.num * ScaleOffset(field).scale + ScaleOffset(field).offset * v.den,
     den |-> v.den * Tenk]

\* val > max_val || val < 2.0
OutOfRangeMut(val, max_val) ==
    val.num > max_val * val.den \/ val.num <= 2 * val.den
OutOfRange(val, max_val) ==
    val.num > max_val * val.den \/ val.num < 2 * val.den

\* f64_to_int: val as u8, val as u16, for 0 <= val <= the largest word:
\* the fraction is dropped
F64ToInt(val) == val.num \div val.den

\* one element of pack_data_array
PackValue(field, v) ==
    LET val == ScaledVal(field, v)
    IN  IF OutOfRange(val, MaxVal(field)) THEN 0 ELSE F64ToInt(val)

\* if v < 2 { f64::MIN } else { ((v as f32 - offset) / scale) as f64 }
DecodeWordMut(field, word) ==
    IF word < 1 THEN [sentinel |-> TRUE, num |-> 0, den |-> 1]
    ELSE [sentinel |-> FALSE,
          num |-> word * Tenk - ScaleOffset(field).offset,
          den |-> ScaleOffset(field).scale]
DecodeWord(field, word) ==
    IF word < 2 THEN [sentinel |-> TRUE, num |-> 0, den |-> 1]
    ELSE [sentinel |-> FALSE,
          num |-> word * Tenk - ScaleOffset(field).offset,
          den |-> ScaleOffset(field).scale]

\* the values a gate is drawn from, per field: fractions with a fixed
\* denominator whose scaled values run from below 2 upwards and from below
\* max_val to above it
ValueDen(field) ==
    CASE field = "RHO" -> 100
      [] field = "PHI" -> 2
      [] OTHER -> 4

\* the largest numerator whose scaled value is at most val
NumBelow(field, val) ==
    ((val * Tenk - ScaleOffset(field).offset) * ValueDen(field))
        \div ScaleOffset(field).scale

ValueNums(field) ==
    (NumBelow(field, 0)..(NumBelow(field, 0) + MaxValues))
        \cup ((NumBelow(field, MaxVal(field)) - MaxValues + 3)
                  ..(NumBelow(field, MaxVal(field)) + 3))

\* the words of a file a gate is drawn from
Words16 == (0..MaxValues) \cup ((255 - MaxValues)..255) \cup ((65535 - MaxValues)..65535)

Q_Init ==
    \/ /\ q_field \in Range(FieldOrder)
       /\ \E n \in ValueNums(q_field) :
             q_value = [num |-> n, den |-> ValueDen(q_field)]
       /\ q_word = 0
       /\ q_decoded = [sentinel |-> FALSE, num |-> 0, den |-> 1]
       /\ q_pc = "value"
    \/ /\ q_field \in ReadFields
       /\ q_value = [num |-> 0, den |-> 1]
       /\ q_word \in Words16
       /\ q_decoded = [sentinel |-> FALSE, num |-> 0, den |-> 1]
       /\ q_pc = "word"

\* pack_data_array: the gate is quantized and written
Q_Pack ==
    /\ q_pc = "value"
    /\ q_word' = PackValue(q_field, q_value)
    /\ q_pc' = "packed"
    /\ UNCHANGED <<q_field, q_value, q_decoded>>
    /\ UNCHANGED notQ

\* read_data_block: the word is decoded
Q_Decode ==
    /\ q_pc \in {"packed", "word"}
    /\ q_decoded' = DecodeWord(q_field, q_word)
    /\ q_pc' = IF q_pc = "packed" THEN "roundtrip" ELSE "decoded"
    /\ UNCHANGED <<q_field, q_value, q_word>>
    /\ UNCHANGED notQ

Q_Next ==
    \/ Q_Pack
    \/ Q_Decode

\* the initial states of SpecQ: the pass is started, the others are idle
InitQ == Q_Init /\ HRD_Idle /\ RN_Idle /\ WN_Idle /\ W_Idle /\ NZ_Idle /\ AO_Idle /\ RT_Idle /\ PD_Idle /\ DR_Idle /\ CV_Idle /\ RD_Idle /\ RF_Idle /\ FR_Idle

SpecQ == InitQ /\ [][Q_Next]_vars

\* 2 <= v * scale + offset <= max_val
Q_InRange ==
    LET val == ScaledVal(q_field, q_value)
    IN  /\ 2 * val.den <= val.num
        /\ val.num <= MaxVal(q_field) * val.den

\* C15: a value v with 2 <= v * scale + offset <= max_val that is packed
\* and decoded again is not the sentinel and differs from v by at most
\* 1/scale.  The decoded value is a fraction over scale (in
\* ten-thousandths), so the difference of the cross products is compared
\* with Tenk times the denominator of v.
C15_QuantizationRoundTrip ==
    (q_pc = "roundtrip" /\ Q_InRange) =>
        /\ ~q_decoded.sentinel
        /\ q_decoded.den = ScaleOffset(q_field).scale
        /\ Abs(q_decoded.num * q_value.den - q_value.num * q_decoded.den)
               <= Tenk * q_value.den

\* C15 witness: a PHI value whose scaled value is no whole number has made
\* the round trip and come back changed
C15_Witness ==
    /\ q_pc = "roundtrip"
    /\ Q_InRange
    /\ q_field = "PHI"
    /\ q_decoded.num * q_value.den # q_value.num * q_decoded.den


\* the canonical table of the format description, (scale, offset) in
\* ten-thousandths: REF (2.0, 66.0), VEL (2.0, 129.0), SW (2.0, 129.9),
\* ZDR (16.0, 128.0), PHI (2.8261, 2.0), RHO (300.0, -60.5), CFP (1.0, 8.0)
CanonicalTable ==
    [REF |-> <<20000, 660000>>, VEL |-> <<20000, 1290000>>,
     SW |-> <<20000, 1299000>>, ZDR |-> <<160000, 1280000>>,
     PHI |-> <<28261, 20000>>, RHO |-> <<3000000, -605000>>,
     CFP |-> <<10000, 80000>>]

\* C16: a word q of a file decodes to the sentinel when q < 2 and to
\* (q - offset)/scale of the canonical table otherwise (the fraction with
\* numerator q - offset and denominator scale, both in ten-thousandths); a
\* REF word of 2 decodes to -32.
C16_DecodeThreshold ==
    q_pc = "decoded" =>
        /\ q_word < 2 => q_decoded.sentinel
        /\ q_word >= 2 =>
              /\ ~q_decoded.sentinel
              /\ q_decoded.den = CanonicalTable[q_field][1]
              /\ q_decoded.num = q_word * Tenk - CanonicalTable[q_field][2]
        /\ (q_field = "REF" /\ q_word = 2) =>
              q_decoded.num = (-32) * q_decoded.den

\* C16 witness: a REF word of 2 has been decoded
C16_Witness ==
    /\ q_pc = "decoded"
    /\ q_field = "REF"
    /\ q_word = 2
    /\ ~q_decoded.sentinel


\* ---------------------------------------------------------------------
\* dorade.rs read_dorade: the PARM blocks of load_sensor, the one sweep of
\* load_sweep with the data blocks of each ray (load_ray), and the write
\* of the volume that was read (lib.rs write, nexrad.rs pack_data_block)
\* ---------------------------------------------------------------------

MaxParms == 2
MaxDrRays == 2
MaxBlockLen == 2
MaxMoreSweeps == 1

\* dorade.rs dorade_to_generic_name
DoradeToGenericName(name) ==
    CASE name \in {"DBZ", "DCZ", "DBZHM"} -> "REF"
      [] name \in {"VEL", "VC"} -> "VEL"
      [] name = "WIDTH" -> "SW"
      [] name = "ZDR" -> "ZDR"
      [] name = "PHI" -> "PHI"
      [] name = "KDP" -> "KDP"
      [] name = "RHOHV" -> "RHO"
      [] OTHER -> name

\* parameter names a file may carry
DrNames ==
    {"DBZ", "DBZHC", "DBZHC_F", "DCZ", "DBZHM", "VEL_F", "VC", "WIDTH",
     "RHOHV", "RHOHV_F", "ZDR_F", "PHIDP",
     "REF", "VEL", "SW", "ZDR", "PHI", "RHO", "KDP", "SNR"}

\* the data blocks of one ray: one block per parameter of the file, each
\* of the given kind, with the given numbers of gates
DrBlocks(parms, kind, lens) ==
    [k \in 1..Len(parms) |-> [kind |-> kind, name |-> parms[k], len |-> lens[k]]]

\* files that vary in their parameter names: one ray, every block as long
\* as the cell count
DrNameFiles ==
    {[parms |-> parms,
      rays |-> <<DrBlocks(parms, kind, [k \in 1..Len(parms) |-> MaxBlockLen])>>,
      compress |-> FALSE, ngates |-> MaxBlockLen, more |-> 0] :
        parms \in SeqsUpTo(DrNames, MaxParms) \ {<<>>}, kind \in {"RDAT", "QDAT"}}

\* files that vary in their shape: the parameters DBZ, VEL, ..., any
\* number of rays in the first SWIB ... NULL group, every block with a
\* length of its own, and some number of further SWIB ... NULL groups
\* behind the first (more)
DrShapeParms == <<"DBZ", "VEL", "WIDTH">>

DrShapeFiles ==
    UNION {{[parms |-> SubSeq(DrShapeParms, 1, np),
             rays |-> [r \in 1..Len(lens) |->
                          DrBlocks(SubSeq(DrShapeParms, 1, np), "RDAT", lens[r])],
             compress |-> c, ngates |-> MaxBlockLen, more |-> more] :
               lens \in SeqsUpTo([1..np -> 1..MaxBlockLen], MaxDrRays),
               c \in BOOLEAN, more \in 0..MaxMoreSweeps} :
           np \in 1..Min(MaxParms, Len(DrShapeParms))}

\* read_dorade opens the file; load_sensor is at its PARM blocks
DR_Init ==
    /\ dr_file \in DrNameFiles \cup DrShapeFiles
    /\ dr_parm_desc = {}
    /\ dr_params = {}
    /\ dr_i = 1
    /\ dr_j = 0
    /\ dr_ray = {}
    /\ dr_sweep = <<>>
    /\ dr_sweeps = <<>>
    /\ dr_blocks = <<>>
    /\ dr_pc = "parm"

\* load_sensor: one turn of the PARM loop
DR_ReadParm ==
    /\ dr_pc = "parm"
    /\ dr_i <= Len(dr_file.parms)
    /\ LET new_name == DoradeToGenericName(dr_file.parms[dr_i])
       IN  /\ dr_parm_desc' = dr_parm_desc \cup {new_name}
           /\ dr_params' = dr_params \cup {new_name}
    /\ dr_i' = dr_i + 1
    /\ UNCHANGED <<dr_file, dr_j, dr_ray, dr_sweep, dr_sweeps, dr_blocks, dr_pc>>
    /\ UNCHANGED notDr

\* load_sensor: the next block is no PARM; the cell descriptor is read and
\* load_sweep starts with an empty sweep
DR_ParmsEnd ==
    /\ dr_pc = "parm"
    /\ dr_i > Len(dr_file.parms)
    /\ dr_i' = 1
    /\ dr_sweep' = <<>>
    /\ dr_pc' = "sweep"
    /\ UNCHANGED <<dr_file, dr_parm_desc, dr_params, dr_j, dr_ray, dr_sweeps, dr_blocks>>
    /\ UNCHANGED notDr

\* load_sweep: the next block is not NULL; load_ray reads RYIB and ASIB and
\* creates the new ray
DR_RayStart ==
    /\ dr_pc = "sweep"
    /\ dr_i <= Len(dr_file.rays)
    /\ dr_j' = 1
    /\ dr_ray' = {}
    /\ dr_pc' = "ray"
    /\ UNCHANGED <<dr_file, dr_parm_desc, dr_params, dr_i, dr_sweep, dr_sweeps, dr_blocks>>
    /\ UNCHANGED notDr

\* the number of values load_ray reads from a block: the cell count for
\* compressed data (decompress_HRD), the length the block gives otherwise
DataLen(file, block) ==
    IF file.compress THEN file.ngates ELSE block.len

\* HashMap::insert
MapInsert(map, key, value) ==
    {p \in map : p[1] # key} \cup {<<key, value>>}

\* load_ray: one RDAT or QDAT block; the lookup of the name in parm_desc
\* is unwrapped
DR_ReadData ==
    /\ dr_pc = "ray"
    /\ dr_j <= Len(dr_file.rays[dr_i])
    /\ LET block == dr_file.rays[dr_i][dr_j]
           data_type == DoradeToGenericName(block.name)
       IN  IF block.kind \in {"RDAT", "QDAT"} /\ data_type \in dr_parm_desc
           THEN /\ dr_ray' = MapInsert(dr_ray, data_type, DataLen(dr_file, block))
                /\ dr_j' = dr_j + 1
                /\ dr_pc' = "ray"
           ELSE /\ dr_pc' = "panic"
                /\ UNCHANGED <<dr_ray, dr_j>>
    /\ UNCHANGED <<dr_file, dr_parm_desc, dr_params, dr_i, dr_sweep, dr_sweeps, dr_blocks>>
    /\ UNCHANGED notDr

\* load_ray: the next block is RYIB or NULL; the ray is pushed
DR_RayEnd ==
    /\ dr_pc = "ray"
    /\ dr_j > Len(dr_file.rays[dr_i])
    /\ dr_sweep' = Append(dr_sweep, dr_ray)
    /\ dr_i' = dr_i + 1
    /\ dr_pc' = "sweep"
    /\ UNCHANGED <<dr_file, dr_parm_desc, dr_params, dr_j, dr_ray, dr_sweeps, dr_blocks>>
    /\ UNCHANGED notDr

\* load_sweep: the next block is NULL; the sweep is pushed and read_dorade
\* returns the radar
DR_SweepEnd ==
    /\ dr_pc = "sweep"
    /\ dr_i > Len(dr_file.rays)
    /\ dr_sweeps' = Append(dr_sweeps, dr_sweep)
    /\ dr_pc' = "returned"
    /\ UNCHANGED <<dr_file, dr_parm_desc, dr_params, dr_i, dr_j, dr_ray, dr_sweep, dr_blocks>>
    /\ UNCHANGED notDr

\* lib.rs write: every vector of every ray loses its last value while its
\* length is odd
ForceEven(ray) == {<<p[1], p[2] - (p[2] % 2)>> : p \in ray}

\* nexrad.rs pack_data: the fields of a ray that are written, in order
PackedFields(ray) ==
    LET present(k) == \E p \in ray : p[1] = FieldOrder[k]
        F[k \in 0..Len(FieldOrder)] ==
            IF k = 0 THEN <<>>
            ELSE IF present(k) THEN Append(F[k - 1], FieldOrder[k]) ELSE F[k - 1]
    IN  F[Len(FieldOrder)]

\* nexrad.rs pack_data_block and pack_data_array for one ray: each written
\* field with the ngates of its header and the length of its array
PackRay(ray, sweep_ngates) ==
    LET fields == PackedFields(ray)
    IN  [k \in 1..Len(fields) |->
            <<fields[k], sweep_ngates, (CHOOSE p \in ray : p[1] = fields[k])[2]>>]

\* lib.rs write of the volume read, as one NEXRAD file: the lengths are
\* forced even, create_new_file takes the time of ray 0 of sweep 0, and
\* every ray's field blocks carry Sweep::ngates, the length of the first
\* value of ray 0's map in the map's iteration order
DR_Write ==
    /\ dr_pc = "returned"
    /\ LET rays == [r \in 1..Len(dr_sweeps[1]) |-> ForceEven(dr_sweeps[1][r])]
       IN  IF rays = <<>>
           THEN /\ dr_pc' = "panic"
                /\ UNCHANGED <<dr_sweeps, dr_blocks>>
           ELSE \E first \in rays[1] :
                    /\ dr_sweeps' = <<rays>>
                    /\ dr_blocks' = [r \in 1..Len(rays) |-> PackRay(rays[r], first[2])]
                    /\ dr_pc' = "written"
    /\ UNCHANGED <<dr_file, dr_parm_desc, dr_params, dr_i, dr_j, dr_ray, dr_sweep>>
    /\ UNCHANGED notDr

DR_Next ==
    \/ DR_ReadParm
    \/ DR_ParmsEnd
    \/ DR_RayStart
    \/ DR_ReadData
    \/ DR_RayEnd
    \/ DR_SweepEnd
    \/ DR_Write

InitDR == DR_Init /\ HRD_Idle /\ RN_Idle /\ WN_Idle /\ W_Idle /\ NZ_Idle /\ AO_Idle /\ RT_Idle /\ PD_Idle /\ Q_Idle /\ CV_Idle /\ RD_Idle /\ RF_Idle /\ FR_Idle

SpecDR == InitDR /\ [][DR_Next]_vars


\* the alias table of the format description; other names stay
AliasTable(name) ==
    CASE name \in {"DBZ", "DBZHC", "DBZHC_F", "DCZ", "DBZHM"} -> "REF"
      [] name \in {"VEL_F", "VC"} -> "VEL"
      [] name = "WIDTH" -> "SW"
      [] name \in {"RHOHV", "RHOHV_F"} -> "RHO"
      [] name = "ZDR_F" -> "ZDR"
      [] name = "PHIDP" -> "PHI"
      [] OTHER -> name

\* the keys of a data map
MapKeys(map) == {p[1] : p \in map}

\* C17: when the reader has returned, the field map of the volume holds
\* exactly the alias-table images of the PARM names of the file, and the
\* data map of every ray exactly the images of the names of its RDAT/QDAT
\* blocks: aliases appear under their canonical key only and other names
\* unchanged.
C17_AliasesCanonical ==
    dr_pc = "returned" =>
        /\ dr_params = {AliasTable(n) : n \in Range(dr_file.parms)}
        /\ \A r \in 1..Len(dr_sweeps[1]) :
               MapKeys(dr_sweeps[1][r]) =
                   {AliasTable(b.name) : b \in Range(dr_file.rays[r])}


\* the numbers of gates found in the rays of a sweep, over all fields
GateCounts(sweep) == {p[2] : p \in UNION Range(sweep)}

\* C18: in the sweep the reader returns and in the sweep the writer
\* emits, all rays have one gate count over all of their fields, and every
\* field block the writer emits records that count: the ngates of its
\* header is the length of its array.
C18_NgatesUniform ==
    /\ dr_pc \in {"returned", "written"} =>
           Cardinality(GateCounts(dr_sweeps[1])) <= 1
    /\ dr_pc = "written" =>
           \A r \in 1..Len(dr_blocks) : \A k \in 1..Len(dr_blocks[r]) :
               dr_blocks[r][k][2] = dr_blocks[r][k][3]


\* C19: every sweep of the volume a reader returns is non-empty (has at
\* least one ray); here for the volume read_dorade returns.
C19_SweepsNonEmpty ==
    dr_pc = "returned" =>
        \A k \in 1..Len(dr_sweeps) : dr_sweeps[k] # <<>>


\* ---------------------------------------------------------------------
\* lib.rs convert: every input file is read, normalized and written
\* ---------------------------------------------------------------------

MaxFiles == 3

\* what a path of the list can be: a directory; a file no sniffer knows
\* (read panics "Unknown file format"); a DORADE file with a block the
\* reader does not expect (load_ray panics); a DORADE file whose sweep is
\* too short for trim_rays (Sweep::trim_rays indexes past its rays); a
\* DORADE file whose sweep has no ray (create_new_file takes the time of
\* rays[0]); a DORADE file that reads, normalizes and writes
FileKinds == {"dir", "unknown", "malformed", "short", "empty", "good"}

\* convert has found the output directory and a non-empty list of files
CV_Init ==
    /\ cv_files \in SeqsUpTo(FileKinds, MaxFiles) \ {<<>>}
    /\ cv_trim \in BOOLEAN
    /\ cv_i = 1
    /\ cv_read = {}
    /\ cv_written = {}
    /\ cv_pc = "loop"

\* for file in files: a directory is skipped
CV_SkipDir ==
    /\ cv_pc = "loop"
    /\ cv_i <= Len(cv_files)
    /\ cv_files[cv_i] = "dir"
    /\ cv_i' = cv_i + 1
    /\ UNCHANGED <<cv_files, cv_trim, cv_read, cv_written, cv_pc>>
    /\ UNCHANGED notCv

\* read(file, options): a panic of read or of the reader ends the process
CV_Read ==
    /\ cv_pc = "loop"
    /\ cv_i <= Len(cv_files)
    /\ cv_files[cv_i] # "dir"
    /\ IF cv_files[cv_i] \in {"unknown", "malformed"}
       THEN /\ cv_pc' = "panic"
            /\ UNCHANGED cv_read
       ELSE /\ cv_pc' = "apply"
            /\ cv_read' = cv_read \cup {cv_i}
    /\ UNCHANGED <<cv_files, cv_trim, cv_i, cv_written>>
    /\ UNCHANGED notCv

\* options.apply_options(&mut radar)
CV_ApplyOptions ==
    /\ cv_pc = "apply"
    /\ cv_pc' = IF cv_trim /\ cv_files[cv_i] \in {"short", "empty"}
                THEN "panic" ELSE "write"
    /\ UNCHANGED <<cv_files, cv_trim, cv_i, cv_read, cv_written>>
    /\ UNCHANGED notCv

\* write(radar, out_path, options), then the next file
CV_Write ==
    /\ cv_pc = "write"
    /\ IF cv_files[cv_i] = "empty"
       THEN /\ cv_pc' = "panic"
            /\ UNCHANGED <<cv_i, cv_written>>
       ELSE /\ cv_written' = cv_written \cup {cv_i}
            /\ cv_i' = cv_i + 1
            /\ cv_pc' = "loop"
    /\ UNCHANGED <<cv_files, cv_trim, cv_read>>
    /\ UNCHANGED notCv

\* the list is exhausted and convert returns
CV_Done ==
    /\ cv_pc = "loop"
    /\ cv_i > Len(cv_files)
    /\ cv_pc' = "done"
    /\ UNCHANGED <<cv_files, cv_trim, cv_i, cv_read, cv_written>>
    /\ UNCHANGED notCv

CV_Next ==
    \/ CV_SkipDir
    \/ CV_Read
    \/ CV_ApplyOptions
    \/ CV_Write
    \/ CV_Done

InitCV == CV_Init /\ HRD_Idle /\ RN_Idle /\ WN_Idle /\ W_Idle /\ NZ_Idle /\ AO_Idle /\ RT_Idle /\ PD_Idle /\ Q_Idle /\ DR_Idle /\ RD_Idle /\ RF_Idle /\ FR_Idle

SpecCV == InitCV /\ [][CV_Next]_vars

\* C20: when the run over the list has ended, by return or by a panic,
\* every file of the list that reads, normalizes and writes without
\* failure has been read and written, wherever in the list a failing file
\* stands.
C20_LaterFilesProcessed ==
    cv_pc \in {"done", "panic"} =>
        \A j \in 1..Len(cv_files) :
            cv_files[j] = "good" => (j \in cv_read /\ j \in cv_written)


\* ---------------------------------------------------------------------
\* lib.rs read: the file is handed to the reader whose sniffer accepts it
\* ---------------------------------------------------------------------

\* the number of bytes a sniffer looks at
MagicLen == 4

\* the bytes the heads of the files are made of
HeadBytes == {"A", "R", "2", "V", "S", "W", "B", "C", "O", "M"}

\* dorade.rs is_dorade: the first four bytes are COMM or SSWB
IsDorade(head) ==
    head \in {<<"C", "O", "M", "M">>, <<"S", "S", "W", "B">>}

\* nexrad.rs is_nexrad: the first four bytes are AR2V
IsNexrad(head) == head = <<"A", "R", "2", "V">>

\* read is called on a file
RD_Init ==
    /\ rd_head \in SeqsUpTo(HeadBytes, MagicLen)
    /\ rd_reader = "none"
    /\ rd_pc = "read"

\* is_dorade on a file of fewer than four bytes: next_string unwraps the
\* failed read_exact
RD_ShortFile ==
    /\ rd_pc = "read"
    /\ Len(rd_head) < MagicLen
    /\ rd_pc' = "panic_io"
    /\ UNCHANGED <<rd_head, rd_reader>>
    /\ UNCHANGED notRd

\* is_dorade accepts: read_dorade is called
RD_ReadDorade ==
    /\ rd_pc = "read"
    /\ Len(rd_head) = MagicLen
    /\ IsDorade(rd_head)
    /\ rd_reader' = "dorade"
    /\ rd_pc' = "reading"
    /\ UNCHANGED rd_head
    /\ UNCHANGED notRd

\* is_dorade rejects: panic!("Unknown file format")
RD_UnknownFormat ==
    /\ rd_pc = "read"
    /\ Len(rd_head) = MagicLen
    /\ ~IsDorade(rd_head)
    /\ rd_pc' = "panic_unknown_format"
    /\ UNCHANGED <<rd_head, rd_reader>>
    /\ UNCHANGED notRd

RD_Next ==
    \/ RD_ShortFile
    \/ RD_ReadDorade
    \/ RD_UnknownFormat

InitRD == RD_Init /\ HRD_Idle /\ RN_Idle /\ WN_Idle /\ W_Idle /\ NZ_Idle /\ AO_Idle /\ RT_Idle /\ PD_Idle /\ Q_Idle /\ DR_Idle /\ CV_Idle /\ RF_Idle /\ FR_Idle

SpecRD == InitRD /\ [][RD_Next]_vars

\* C21: read fails with the unknown-format failure only on a file that
\* neither the FormatA sniffer nor the FormatB sniffer accepts, and a file
\* that starts with the AR2V magic is handed to the FormatB reader.
C21_DispatchBySniffer ==
    /\ rd_pc = "panic_unknown_format" =>
           (~IsDorade(rd_head) /\ ~IsNexrad(rd_head))
    /\ (rd_pc # "read" /\ IsNexrad(rd_head)) =>
           (rd_pc = "reading" /\ rd_reader = "nexrad")


\* C22: the volume read_dorade returns has one sweep for every
\* SWIB ... NULL group of the file: the first group and every further one.
C22_OneSweepPerGroup ==
    dr_pc = "returned" => Len(dr_sweeps) = 1 + dr_file.more


\* ---------------------------------------------------------------------
\* nexrad.rs read_nexrad on a file: the compression record selects the
\* message body, then the loop over the body runs (RN_SkipMessage,
\* RN_ReadRay, RN_Return)
\* ---------------------------------------------------------------------

MaxFileMsgs == 3

\* bytes 4..6 of a compression record: BZ, 00 00, 09 80, and one other
CompressionRecords == {<<66, 90>>, <<0, 0>>, <<9, 128>>, <<1, 1>>}

\* 00 00 and 09 80 mark an uncompressed body
Uncompressed(record) == record \in {<<0, 0>>, <<9, 128>>}

RF_Init ==
    /\ rf_file \in SeqsUpTo(Messages, MaxFileMsgs)
    /\ rf_record \in CompressionRecords
    /\ rf_pc = "file"

\* read_nexrad up to the loop: the header and the compression record are
\* consumed, buf is filled as the record says, and the loop state is set up
RF_ReadBody ==
    /\ rf_pc = "file"
    /\ LET body == ReadBody(rf_record, rf_file)
       IN  IF body.ok
           THEN /\ rn_buf' = body.buf
                /\ rn_reader' = 0
                /\ rn_sweeps' = <<>>
                /\ rn_sweep' = <<>>
                /\ rn_pc' = "loop"
                /\ rf_pc' = "body"
           ELSE /\ rf_pc' = "panic"
                /\ UNCHANGED rnVars
    /\ UNCHANGED <<rf_file, rf_record>>
    /\ UNCHANGED <<hrdVars, wnVars, wVars, nzVars, aoVars, rtVars, pdVars, qVars, drVars, cvVars, rdVars, frVars>>

RF_Next ==
    \/ RF_ReadBody
    \/ RN_SkipMessage
    \/ RN_ReadRay
    \/ RN_Return

InitRF == RF_Init /\ HRD_Idle /\ RN_Idle /\ WN_Idle /\ W_Idle /\ NZ_Idle /\ AO_Idle /\ RT_Idle /\ PD_Idle /\ Q_Idle /\ DR_Idle /\ CV_Idle /\ RD_Idle /\ FR_Idle

SpecRF == InitRF /\ [][RF_Next]_vars

\* the type 31 messages of the file, by position
RF_Msg31 == {i \in 1..Len(rf_file) : IsMsg31(rf_file[i])}

\* C23: when read_nexrad returns from a file whose compression record
\* marks an uncompressed body (00 00 or 09 80), the sweeps of the volume
\* hold one ray for each type 31 message of the file.
C23_UncompressedBodyParsed ==
    (rn_pc = "returned" /\ Uncompressed(rf_record)) =>
        Len(Flatten(rn_sweeps)) = Cardinality(RF_Msg31)


\* ---------------------------------------------------------------------
\* nexrad.rs read_ray: the bytes one message takes from the body
\* ---------------------------------------------------------------------

MaxFrHalfwords == 30
MaxFrPtrs == 2

\* the length of a message slot
SlotLen == 2432

MsgHeaderLayout ==
    <<(<<2, 1>>), (<<1, 1>>), (<<1, 1>>), (<<2, 1>>), (<<2, 1>>), (<<4, 1>>),
      (<<2, 1>>), (<<2, 1>>)>>

\* a pointer of the table: zero; the offset of a well-formed block that
\* lies in the rest of the message; or any other value (below the header
\* and the table, past the end of the buffer, or at no known block)
PtrClasses == {"zero", "block", "bad"}

\* the buffer lengths tried: short ones and one whole slot
FrLens == {8 * k : k \in 0..(MaxFrHalfwords \div 4)} \cup {SlotLen}

\* read_ray is called on the body, which has fr_len bytes left and starts
\* with a type 31 message or with a message of another type (2)
FR_Init ==
    /\ fr_len \in FrLens
    /\ \/ /\ fr_type = Msg31
          /\ fr_size \in 0..MaxFrHalfwords
          /\ fr_ptrs \in SeqsUpTo(PtrClasses, MaxFrPtrs)
       \/ /\ fr_type = 2
          /\ fr_size = 0
          /\ fr_ptrs = <<>>
    /\ fr_reader = 0
    /\ fr_pc = "header"

\* let header: MsgHeader = deserialize(&mut reader)
FR_MsgHeader ==
    /\ fr_pc = "header"
    /\ IF fr_len < SerializedLen(MsgHeaderLayout)
       THEN /\ fr_pc' = "panic"
            /\ UNCHANGED fr_reader
       ELSE /\ fr_reader' = SerializedLen(MsgHeaderLayout)
            /\ fr_pc' = IF fr_type # Msg31 THEN "other" ELSE "msg31"
    /\ UNCHANGED <<fr_len, fr_type, fr_size, fr_ptrs>>
    /\ UNCHANGED notFr

\* a message of another type: the rest of the slot is consumed and None
\* returned
FR_SkipOther ==
    /\ fr_pc = "other"
    /\ LET rest == SlotLen - SizeOf(MsgHeaderLayout)
       IN  IF fr_len - fr_reader < rest
           THEN /\ fr_pc' = "panic"
                /\ UNCHANGED fr_reader
           ELSE /\ fr_reader' = fr_reader + rest
                /\ fr_pc' = "none"
    /\ UNCHANGED <<fr_len, fr_type, fr_size, fr_ptrs>>
    /\ UNCHANGED notFr

\* the Msg31Header is deserialized and block_count pointers are consumed
FR_Msg31Header ==
    /\ fr_pc = "msg31"
    /\ LET need == SerializedLen(Msg31HeaderLayout) + 4 * Len(fr_ptrs)
       IN  IF fr_len - fr_reader < need
           THEN /\ fr_pc' = "panic"
                /\ UNCHANGED fr_reader
           ELSE /\ fr_reader' = fr_reader + need
                /\ fr_pc' = "blocks"
    /\ UNCHANGED <<fr_len, fr_type, fr_size, fr_ptrs>>
    /\ UNCHANGED notFr

\* for ptr in ptrs, p > 0: read_data_block on a copy of the reader split
\* at the pointer; the reader itself does not move
FR_Blocks ==
    /\ fr_pc = "blocks"
    /\ fr_pc' = IF \E k \in 1..Len(fr_ptrs) : fr_ptrs[k] = "bad"
                THEN "panic" ELSE "advance"
    /\ UNCHANGED <<fr_len, fr_type, fr_size, fr_ptrs, fr_reader>>
    /\ UNCHANGED notFr

\* header.size * 2 - 4 - size_of::<Msg31Header>() - block_count * 4
Skip(size, block_count) ==
    size * 2 - 4 - SizeOf(Msg31HeaderLayout) - block_count * 4

\* the reader is split at min(skip, reader.len()) and Some((ray, end)) is
\* returned; a skip below zero overflows usize: a panic in a build with
\* overflow checks, a wrap to a huge value in one without
FR_Advance ==
    /\ fr_pc = "advance"
    /\ LET skip == Skip(fr_size, Len(fr_ptrs))
       IN  IF skip < 0
           THEN \E overflow_checks \in BOOLEAN :
                    IF overflow_checks
                    THEN /\ fr_pc' = "panic"
                         /\ UNCHANGED fr_reader
                    ELSE /\ fr_reader' = fr_len
                         /\ fr_pc' = "some"
           ELSE /\ fr_reader' = fr_reader + Min(skip, fr_len - fr_reader)
                /\ fr_pc' = "some"
    /\ UNCHANGED <<fr_len, fr_type, fr_size, fr_ptrs>>
    /\ UNCHANGED notFr

FR_Next ==
    \/ FR_MsgHeader
    \/ FR_SkipOther
    \/ FR_Msg31Header
    \/ FR_Blocks
    \/ FR_Advance

InitFR == FR_Init /\ HRD_Idle /\ RN_Idle /\ WN_Idle /\ W_Idle /\ NZ_Idle /\ AO_Idle /\ RT_Idle /\ PD_Idle /\ Q_Idle /\ DR_Idle /\ CV_Idle /\ RD_Idle /\ RF_Idle

SpecFR == InitFR /\ [][FR_Next]_vars

\* C24: when read_ray returns a ray, the bytes consumed from the start of
\* the MsgHeader are header.size * 2 + 4, or all that the buffer had left
\* if that is less, whatever block_count and the pointers are.
C24_FramingExact ==
    fr_pc = "some" => fr_reader = Min(fr_size * 2 + 4, fr_len)


\* ---------------------------------------------------------------------
\* trim_rays as the format description words it: the walk over the rays
\* accumulates the direction-signed change of azimuth, a step of more
\* than 300 degrees counted as 360 - |step|, and ends at the first index
\* where the accumulated change is 360 or more
\* ---------------------------------------------------------------------

RefStep(from, to) ==
    IF Abs(to - from) > 300 THEN 360 - Abs(to - from) ELSE to - from

\* the accumulated change at the ray of (1-based) position i
RECURSIVE RefChange(_, _, _)
RefChange(rays, direction, i) ==
    IF i <= 1 THEN 0
    ELSE RefChange(rays, direction, i - 1)
             + direction * RefStep(rays[i - 1].azimuth, rays[i].azimuth)

\* the rays before the first position that reaches 360, all if none does
RefTrim(rays) ==
    LET direction == Direction(rays)
        hits == {i \in 1..Len(rays) : RefChange(rays, direction, i) >= 360}
    IN  IF hits = {} THEN rays
        ELSE SubSeq(rays, 1, (CHOOSE i \in hits : \A j \in hits : i <= j) - 1)

NZ_TrimDone == nz_pc = "done" /\ nz_op = "trim_rays" /\ nz_count = 1

\* C25 as stated: when trim_rays has run, every sweep holds exactly the
\* rays of the original sweep before the first index at which the
\* accumulated change reaches 360, in their order and unchanged, and all
\* rays of a sweep that never reaches 360.
C25_TrimIsPrefixOfOriginal ==
    NZ_TrimDone =>
        /\ Len(nz_radar) = Len(nz_input)
        /\ \A k \in 1..Len(nz_radar) :
               /\ nz_radar[k].rays =
                      SubSeq(nz_input[k].rays, 1, Len(nz_radar[k].rays))
               /\ Len(nz_radar[k].rays) =
                      Len(RefTrim(CorrectAzimuth(nz_input[k]).rays))

\* C25, amended: when trim_rays has run, every sweep holds exactly the
\* rays of the original sweep, each with its azimuth reduced modulo 360,
\* before the first index at which the accumulated change of the reduced
\* azimuths reaches 360, in their order, and all rays (azimuths reduced) of
\* a sweep that never reaches 360.
C25_TrimIsPrefix ==
    NZ_TrimDone =>
        /\ Len(nz_radar) = Len(nz_input)
        /\ \A k \in 1..Len(nz_radar) :
               /\ nz_radar[k].rays = RefTrim(CorrectAzimuth(nz_input[k]).rays)
               /\ nz_radar[k].elevation = nz_input[k].elevation

\* C25 witness: trim_rays has cut a sweep whose azimuths wrap past 360
\* on the way
C25_Witness ==
    /\ NZ_TrimDone
    /\ \E k \in 1..Len(nz_radar) :
           /\ nz_radar[k].rays # <<>>
           /\ Len(nz_radar[k].rays) < Len(nz_input[k].rays)
           /\ \E i \in 2..Len(nz_radar[k].rays) :
                  nz_radar[k].rays[i].azimuth < nz_radar[k].rays[i - 1].azimuth


\* C26: in every file written, the sweeps stand in non-decreasing order of
\* elevation, sweeps of equal elevation in order of their starting time,
\* and every sweep carries its rays in the order it came with.
C26_WrittenSweepOrder ==
    \A f \in 1..Len(w_files) :
        /\ \A i, j \in 1..Len(w_files[f]) :
               i < j =>
                   /\ w_files[f][i].elevation <= w_files[f][j].elevation
                   /\ w_files[f][i].elevation = w_files[f][j].elevation
                          => w_files[f][i].time < w_files[f][j].time
        /\ \A i \in 1..Len(w_files[f]) :
               w_files[f][i].rays = SweepRays(w_files[f][i].id)

\* C26 witness: a file of at least three sweeps is written in which two
\* sweeps of equal elevation stand next to each other in the order of
\* their times, against the order they had in the volume
C26_Witness ==
    /\ w_pc = "returned"
    /\ \E f \in 1..Len(w_files) :
           /\ Len(w_files[f]) >= 3
           /\ \E i \in 1..(Len(w_files[f]) - 1) :
                  /\ w_files[f][i].elevation = w_files[f][i + 1].elevation
                  /\ w_files[f][i].id > w_files[f][i + 1].id


\* the offset in the written bytes at which the block of the k-th present
\* field starts: behind the header, the ten slots, VOL, ELV and RAD and the
\* field blocks before it, each with its array and 12 bytes of padding
RECURSIVE PD_FieldStart(_)
PD_FieldStart(k) ==
    IF k = 1
    THEN Len(pd_msg) + SumSeq([n \in 1..Len(FixedBlocks) |->
                                  SerializedLen(FixedLayout(FixedBlocks[n]))])
    ELSE PD_FieldStart(k - 1) + SerializedLen(DataBlockLayout)
             + pd_ngates * WordBytes(PD_Present[k - 1]) + 12

\* C27: for every set of fields of the ray, the pointer vector has exactly
\* 8 entries, and the block of every field present is addressed by exactly
\* one nonzero pointer of the table as written, the k-th present field in
\* the order REF, VEL, SW, RHO, PHI, ZDR by slot 3 + k.
C27_EveryFieldBlockAddressed ==
    pd_pc = "done" =>
        /\ Len(pd_ptrs) = 8
        /\ \A k \in 1..Len(PD_Present) :
               /\ 3 + k <= 10
               /\ PD_PtrAt(3 + k) = PD_FieldStart(k)
               /\ \A j \in 1..10 : PD_PtrAt(j) = PD_FieldStart(k) => j = 3 + k


\* C28: when the writer has written a volume of non-empty sweeps, the
\* reader's closing rule (a ray of radial_status 2 or 4 closes the sweep),
\* run over the statuses written, yields exactly the sweeps written, with
\* their numbers of rays, and every sweep ends with a ray of status 2 or 4.
C28_StatusesPartitionSweeps ==
    wn_pc = "returned" =>
        /\ ReadSweeps(wn_writer, 0, <<>>, 0) = wn_radar
        /\ \A m \in Range(wn_writer) :
               m.azimuth_number = wn_radar[m.elevation_number]
                   => IsSweepEnd(m.radial_status)


\* C29: when read_nexrad returns, the rays of the sweeps of the volume,
\* taken in order, are exactly the type 31 messages of the body, each
\* once: no ray is lost, also none that follows the last ray of status 2
\* or 4.
C29_NoRayLost ==
    rn_pc = "returned" => Flatten(rn_sweeps) = Msg31Upto(Len(rn_buf))


\* ---------------------------------------------------------------------
\* the angular travel of a sweep's rays
\* ---------------------------------------------------------------------

\* the rays turn steadily in the direction s (1: azimuths increasing,
\* -1: decreasing): every step is s times less than half a turn
Turning(rays, s) ==
    \A i \in 2..Len(rays) :
        (s * (rays[i].azimuth - rays[i - 1].azimuth)) % FullCircle
            \in 1..(FullCircle \div 2 - 1)

\* the degrees the rays travel from the first to the last, each step the
\* shorter way round
Travel(rays) ==
    SumSeq([i \in 1..(Len(rays) - 1) |->
        LET d == (rays[i + 1].azimuth - rays[i].azimuth) % FullCircle
        IN  Min(d, FullCircle - d)])

NZ_BoundDone ==
    /\ nz_pc = "done"
    /\ nz_op \in {"trim_rays", "split_overlap_rays"}
    /\ nz_count = 1

\* C30: when trim_rays or split_overlap_rays has run on sweeps whose
\* azimuths turn steadily, increasing or decreasing, no resulting sweep's
\* rays travel 360 degrees or more.
C30_LessThanOneRevolution ==
    (NZ_BoundDone /\ \E s \in {1, -1} :
         \A k \in 1..Len(nz_input) : Turning(nz_input[k].rays, s))
        => \A k \in 1..Len(nz_radar) : Travel(nz_radar[k].rays) < FullCircle

\* the same for increasing azimuths in steps of less than 60 degrees
C30_ClockwiseFineSteps ==
    (NZ_BoundDone /\ \A k \in 1..Len(nz_input) :
         \A i \in 2..Len(nz_input[k].rays) :
             (nz_input[k].rays[i].azimuth - nz_input[k].rays[i - 1].azimuth)
                 % FullCircle \in 1..59)
        => \A k \in 1..Len(nz_radar) : Travel(nz_radar[k].rays) < FullCircle

\* the same for decreasing azimuths only
C30_CounterClockwise ==
    (NZ_BoundDone /\ \A k \in 1..Len(nz_input) : Turning(nz_input[k].rays, -1))
        => \A k \in 1..Len(nz_radar) : Travel(nz_radar[k].rays) < FullCircle

=============================================================================
